---- MODULE Spec2Model ----
(***************************************************************************)
(* A model of the gota series package: the series core (series.go), the    *)
(* memoization wrapper cacheAbleSeries and the rolling window engine.      *)
(*                                                                         *)
(* Three specifications share the module:                                  *)
(*   SpecCache   - a cache-wrapped series and its copy (cacheAbleSeries)   *)
(*   SpecSeries  - one series object under its public operations           *)
(*   SpecRolling - rolling aggregates of a source series                   *)
(*                                                                         *)
(* float64 values are fixed-point numbers: an integer count of 10^-7, one  *)
(* digit finer than the six decimals fmt's %f verb prints, with NaN as a   *)
(* separate flag.                                                          *)
(***************************************************************************)
EXTENDS Integers, Sequences, FiniteSets, TLC

VARIABLES
    \* SpecCache
    wrappers,   \* "orig"/"copy" -> the cacheAbleSeries {Series, c} or NoWrapper
    caches,     \* the Cache objects ever allocated, by reference (index)
    execs,      \* ghost: <<wrapper, call>> -> times the wrapped series computed it
    firstRet,   \* ghost: <<wrapper, call>> -> what the first call returned
    last,       \* the most recent call and what it returned
    steps,      \* calls made so far
    \* SpecSeries
    recv,       \* the series object the operations are applied to
    ret,        \* what the most recent operation returned
    op,         \* the most recent operation and its arguments
    panicked,   \* the most recent operation ended in a run-time panic
    \* SpecRolling
    rsrc,       \* the source series of the rolling view
    rview,      \* the most recent rolling view (window, minPeriods)
    rout,       \* the most recent rolling aggregate
    \* SpecStorage
    heap,       \* the backing arrays allocated so far, by reference (index)
    hsrc,       \* the source series s, its elements a slice header into heap
    hder,       \* the series t derived from s, or NoDerived
    hop         \* the most recent operation, its target and its number

cacheVars  == <<wrappers, caches, execs, firstRet, last, steps>>
seriesVars == <<recv, ret, op, panicked>>
rollVars   == <<rsrc, rview, rout>>
heapVars   == <<heap, hsrc, hder, hop>>
vars       == <<wrappers, caches, execs, firstRet, last, steps,
                recv, ret, op, panicked, rsrc, rview, rout,
                heap, hsrc, hder, hop>>

(***************************************************************************)
(* Bounds of the model.                                                    *)
(***************************************************************************)
MaxSteps == 3       \* calls made on the cache wrappers in one behaviour
MaxLen   == 2       \* longest series a SpecSeries behaviour holds
RollLen   == 3      \* longest generated source of a rolling view
MaxWindow == 3      \* largest window of a rolling view
MaxPasses == 2      \* rolling passes stacked on one source

(***************************************************************************)
(* Program constants.                                                      *)
(***************************************************************************)
FmtPrecision == 6   \* decimals printed by the %f verb of the cache keys

Scale == 10 ^ (FmtPrecision + 1)    \* fixed-point units in 1.0

Nil == "nil"                        \* the nil error

\* Series types (type Type string)
StringType == "string"
IntType    == "int"
FloatType  == "float"
BoolType   == "bool"

(***************************************************************************)
(* float64                                                                 *)
(***************************************************************************)
F(v)  == [nan |-> FALSE, v |-> v]
NaNF  == [nan |-> TRUE,  v |-> 0]

(***************************************************************************)
(* Elements.  An element is a value and a missing flag.  An Int element    *)
(* holds an integer, a Float element a fixed-point float64, a Bool element *)
(* 0 for false and 1 for true.                                             *)
(***************************************************************************)
E(v)  == [e |-> v, nan |-> FALSE]
NaE   == [e |-> 0, nan |-> TRUE]

ElemIsNA(x) == x.nan

\* Element.Float(): NaN for a missing element
ElemFloat(t, x) ==
    IF x.nan THEN NaNF
    ELSE IF t = FloatType THEN F(x.e)
    ELSE IF t = IntType THEN F(x.e * Scale)
    ELSE IF t = BoolType THEN F(x.e * Scale)
    ELSE NaNF

\* Element.Int(): an error for a missing element
ElemInt(t, x) ==
    IF x.nan THEN [val |-> 0, err |-> "can't convert NaN to int"]
    ELSE IF t = FloatType THEN [val |-> x.e \div Scale, err |-> Nil]
    ELSE [val |-> x.e, err |-> Nil]

\* Element.Bool(): an error for a missing element or a value that is no boolean
ElemBool(t, x) ==
    IF x.nan THEN [val |-> FALSE, err |-> "can't convert NaN to bool"]
    ELSE IF x.e = (IF t = FloatType THEN Scale ELSE 1) THEN [val |-> TRUE, err |-> Nil]
    ELSE IF x.e = 0 THEN [val |-> FALSE, err |-> Nil]
    ELSE [val |-> FALSE, err |-> "can't convert to bool"]

\* Ordering of elements: a missing element is neither less nor greater
ElemLess(a, b)    == ~a.nan /\ ~b.nan /\ a.e < b.e
ElemGreater(a, b) == ~a.nan /\ ~b.nan /\ a.e > b.e
ElemEq(a, b)      == ~a.nan /\ ~b.nan /\ a.e = b.e

\* Element.SetElement / Element.Set: the element takes the given value
SetElement(x, val) == val

(***************************************************************************)
(* Sequence helpers                                                        *)
(***************************************************************************)
RECURSIVE SumSeq(_)
SumSeq(q) == IF q = <<>> THEN 0 ELSE Head(q) + SumSeq(Tail(q))

\* the entries of q at the positions idx (0-based), in the order of idx
Pick(q, idx) == [k \in 1..Len(idx) |-> q[idx[k] + 1]]

\* the 0-based positions of the true entries of a boolean sequence, ascending
RECURSIVE TruePositionsFrom(_, _)
TruePositionsFrom(bools, i) ==
    IF i >= Len(bools) THEN <<>>
    ELSE (IF bools[i + 1] THEN <<i>> ELSE <<>>) \o TruePositionsFrom(bools, i + 1)
TruePositions(bools) == TruePositionsFrom(bools, 0)

(***************************************************************************)
(* series                                                                  *)
(*   name      a sequence of text pieces                                   *)
(*   elements  the Elements interface value: nil, or the element storage   *)
(*   t         the type                                                    *)
(*   err       the error slot, Nil when empty                              *)
(***************************************************************************)
NilElements  == [nil |-> TRUE,  e |-> <<>>]
Elements(es) == [nil |-> FALSE, e |-> es]

MkSeries(name, t, es, err) ==
    [name |-> name, t |-> t, elements |-> Elements(es), err |-> err]

\* Err(err): a series holding only the error; name, t and elements are zero values
Err(err) == [name |-> <<>>, t |-> "", elements |-> NilElements, err |-> err]

\* New(values, t, name) for values already of type t
New(values, t, name) == MkSeries(name, t, values, Nil)

\* series.Len on existing storage (a nil Elements makes the call panic: LenPanics)
SeriesLen(s) == Len(s.elements.e)
LenPanics(s) == s.elements.nil

\* series.Error
Error(s) == s.err

\* series.Type, series.Name
Type(s) == s.t
Name(s) == s.name

\* series.Empty: New([]int{}, s.t, s.name)
Empty(s) == New(<<>>, s.t, s.name)

\* series.Copy: the elements are copied, the error is kept
Copy(s) == [name |-> s.name, t |-> s.t, elements |-> Elements(s.elements.e), err |-> s.err]

\* series.HasNaN
HasNaN(s) == \E i \in 1..SeriesLen(s) : ElemIsNA(s.elements.e[i])

\* series.IsNaN
IsNaN(s) == [i \in 1..SeriesLen(s) |-> ElemIsNA(s.elements.e[i])]

\* series.Float
Float(s) == [i \in 1..SeriesLen(s) |-> ElemFloat(s.t, s.elements.e[i])]

\* series.Int: nil and the first conversion error, or the values
RECURSIVE IntFrom(_, _)
IntFrom(s, i) ==
    IF i > SeriesLen(s) THEN [val |-> <<>>, err |-> Nil]
    ELSE LET c == ElemInt(s.t, s.elements.e[i])
         IN  IF c.err # Nil THEN [val |-> <<>>, err |-> c.err]
             ELSE LET r == IntFrom(s, i + 1)
                  IN  IF r.err # Nil THEN r
                      ELSE [val |-> <<c.val>> \o r.val, err |-> Nil]
SeriesInt(s) == IntFrom(s, 1)

\* series.Bool: nil and the first conversion error, or the values
RECURSIVE BoolFrom(_, _)
BoolFrom(s, i) ==
    IF i > SeriesLen(s) THEN [val |-> <<>>, err |-> Nil]
    ELSE LET c == ElemBool(s.t, s.elements.e[i])
         IN  IF c.err # Nil THEN [val |-> <<>>, err |-> c.err]
             ELSE LET r == BoolFrom(s, i + 1)
                  IN  IF r.err # Nil THEN r
                      ELSE [val |-> <<c.val>> \o r.val, err |-> Nil]
SeriesBool(s) == BoolFrom(s, 1)

(***************************************************************************)
(* series.Order: sort.Stable over the non-missing elements (under          *)
(* sort.Reverse when reverse), the missing positions appended.             *)
(***************************************************************************)
\* indexedElements.Less, and the same under sort.Reverse
IndexedLess(a, b, reverse) ==
    IF reverse THEN ElemLess(b.element, a.element)
    ELSE ElemLess(a.element, b.element)

\* an insertion that is not stable: x goes before the entries equal to it
RECURSIVE StableInsert_BeforeEqual(_, _, _)
StableInsert_BeforeEqual(q, x, reverse) ==
    IF q = <<>> THEN <<x>>
    ELSE IF ~IndexedLess(Head(q), x, reverse) THEN <<x>> \o q
    ELSE <<Head(q)>> \o StableInsert_BeforeEqual(Tail(q), x, reverse)

\* x placed into the sorted q before the first entry it is less than
RECURSIVE StableInsert(_, _, _)
StableInsert(q, x, reverse) ==
    IF q = <<>> THEN <<x>>
    ELSE IF IndexedLess(x, Head(q), reverse) THEN <<x>> \o q
    ELSE <<Head(q)>> \o StableInsert(Tail(q), x, reverse)

RECURSIVE StableSort(_, _)
StableSort(q, reverse) ==
    IF q = <<>> THEN <<>>
    ELSE StableInsert(StableSort(SubSeq(q, 1, Len(q) - 1), reverse), q[Len(q)], reverse)

Order(s, reverse) ==
    LET es     == s.elements.e
        nasIdx == TruePositions([i \in 1..Len(es) |-> ElemIsNA(es[i])])
        okIdx  == TruePositions([i \in 1..Len(es) |-> ~ElemIsNA(es[i])])
        ie     == [k \in 1..Len(okIdx) |->
                       [index |-> okIdx[k], element |-> es[okIdx[k] + 1]]]
        srt    == StableSort(ie, reverse)
    IN  [k \in 1..Len(srt) |-> srt[k].index] \o nasIdx

(***************************************************************************)
(* Reductions of a series                                                  *)
(***************************************************************************)
\* stat.Mean(s.Float(), nil): the sum over the count, as an exact fraction
Mean(s) ==
    LET fs == Float(s)
    IN  IF Len(fs) = 0 \/ (\E i \in 1..Len(fs) : fs[i].nan)
        THEN [nan |-> TRUE, num |-> 0, den |-> 1]
        ELSE [nan |-> FALSE, num |-> SumSeq([i \in 1..Len(fs) |-> fs[i].v]),
              den |-> Len(fs)]

\* the loop of series.Max: the first element, replaced by each greater one
RECURSIVE MaxFrom(_, _, _)
MaxFrom(es, i, max) ==
    IF i > Len(es) THEN max
    ELSE MaxFrom(es, i + 1, IF ElemGreater(es[i], max) THEN es[i] ELSE max)

\* the loop of series.Min
RECURSIVE MinFrom(_, _, _)
MinFrom(es, i, min) ==
    IF i > Len(es) THEN min
    ELSE MinFrom(es, i + 1, IF ElemLess(es[i], min) THEN es[i] ELSE min)

Max(s) ==
    IF SeriesLen(s) = 0 \/ s.t = StringType THEN NaNF
    ELSE ElemFloat(s.t, MaxFrom(s.elements.e, 2, s.elements.e[1]))

Min(s) ==
    IF SeriesLen(s) = 0 \/ s.t = StringType THEN NaNF
    ELSE ElemFloat(s.t, MinFrom(s.elements.e, 2, s.elements.e[1]))

\* series.Median: NaN for an empty, String or Bool series; else the middle
\* element in ascending order, or half the sum of the two middle elements
Median(s) ==
    IF SeriesLen(s) = 0 \/ s.t = StringType \/ s.t = BoolType THEN NaNF
    ELSE LET ix      == Order(s, FALSE)
             newElem == Pick(s.elements.e, ix)
             n       == Len(newElem)
         IN  IF n % 2 # 0 THEN ElemFloat(s.t, newElem[(n \div 2) + 1])
             ELSE LET a == ElemFloat(s.t, newElem[n \div 2])
                      b == ElemFloat(s.t, newElem[(n \div 2) + 1])
                  IN  IF a.nan \/ b.nan THEN NaNF ELSE F((a.v + b.v) \div 2)

\* series.StdDev, stat.StdDev(s.Float(), nil): the sample standard deviation
\* divides by n - 1, so it is NaN for fewer than two values, and NaN when a
\* value is NaN; otherwise it is kept as the values it is the deviation of
StdDev(s) ==
    LET fs == Float(s)
    IN  IF Len(fs) < 2 \/ (\E i \in 1..Len(fs) : fs[i].nan)
        THEN [nan |-> TRUE, of |-> <<>>]
        ELSE [nan |-> FALSE, of |-> [i \in 1..Len(fs) |-> fs[i].v]]

(***************************************************************************)
(* parseIndexes.  An index specification is one of                         *)
(*   [shape |-> "int", i |-> i]          [shape |-> "ints", idx |-> seq]    *)
(*   [shape |-> "bools", bools |-> seq]  [shape |-> "series", s |-> series] *)
(*   [shape |-> "other"]                 (any unsupported value)           *)
(***************************************************************************)
ErrDimMismatch  == "indexing error: index dimensions mismatch"
ErrArgHasErrors == "indexing error: new values has errors"
ErrContainNaN   == "indexing error: indexes contain NaN"
ErrUnknownMode  == "indexing error: unknown indexing mode"

ParseBools(l, bools) ==
    IF Len(bools) # l THEN [idx |-> <<>>, err |-> ErrDimMismatch]
    ELSE [idx |-> TruePositions(bools), err |-> Nil]

\* parseIndexes reading the elements of a series argument before its error
parseIndexes_NaNFirst(l, indexes) ==
    CASE indexes.shape = "ints"  -> [idx |-> indexes.idx, err |-> Nil]
      [] indexes.shape = "int"   -> [idx |-> <<indexes.i>>, err |-> Nil]
      [] indexes.shape = "bools" -> ParseBools(l, indexes.bools)
      [] indexes.shape = "series" ->
            LET s == indexes.s
            IN  IF HasNaN(s) THEN [idx |-> <<>>, err |-> ErrContainNaN]
                ELSE IF Error(s) # Nil THEN [idx |-> <<>>, err |-> ErrArgHasErrors]
                ELSE IF Type(s) = IntType
                     THEN [idx |-> SeriesInt(s).val, err |-> SeriesInt(s).err]
                ELSE IF Type(s) = BoolType
                     THEN IF SeriesBool(s).err # Nil
                          THEN [idx |-> <<>>, err |-> "indexing error: conversion"]
                          ELSE ParseBools(l, SeriesBool(s).val)
                ELSE [idx |-> <<>>, err |-> ErrUnknownMode]
      [] OTHER -> [idx |-> <<>>, err |-> ErrUnknownMode]

parseIndexes(l, indexes) ==
    CASE indexes.shape = "ints"  -> [idx |-> indexes.idx, err |-> Nil]
      [] indexes.shape = "int"   -> [idx |-> <<indexes.i>>, err |-> Nil]
      [] indexes.shape = "bools" -> ParseBools(l, indexes.bools)
      [] indexes.shape = "series" ->
            LET s == indexes.s
            IN  IF Error(s) # Nil THEN [idx |-> <<>>, err |-> ErrArgHasErrors]
                ELSE IF HasNaN(s) THEN [idx |-> <<>>, err |-> ErrContainNaN]
                ELSE IF Type(s) = IntType
                     THEN [idx |-> SeriesInt(s).val, err |-> SeriesInt(s).err]
                ELSE IF Type(s) = BoolType
                     THEN IF SeriesBool(s).err # Nil
                          THEN [idx |-> <<>>, err |-> "indexing error: conversion"]
                          ELSE ParseBools(l, SeriesBool(s).val)
                ELSE [idx |-> <<>>, err |-> ErrUnknownMode]
      [] OTHER -> [idx |-> <<>>, err |-> ErrUnknownMode]

\* Elements.Get: e[i] for each i; an i outside the storage is a run-time panic
GetPanics(es, idx) == \E k \in 1..Len(idx) : idx[k] < 0 \/ idx[k] >= Len(es)

\* series.Subset (SubsetPanics tells when Get panics instead)
SubsetPanics(s, indexes) ==
    /\ s.err = Nil
    /\ \/ LenPanics(s)
       \/ /\ parseIndexes(SeriesLen(s), indexes).err = Nil
          /\ GetPanics(s.elements.e, parseIndexes(SeriesLen(s), indexes).idx)

Subset(s, indexes) ==
    IF s.err # Nil THEN s
    ELSE LET p == parseIndexes(SeriesLen(s), indexes)
         IN  IF p.err # Nil THEN [s EXCEPT !.err = p.err]
             ELSE MkSeries(s.name, s.t, Pick(s.elements.e, p.idx), Nil)

(***************************************************************************)
(* series.Quantile                                                         *)
(***************************************************************************)
\* stat.Quantile(p, stat.Empirical, x, nil): NaN when x holds a NaN, else the
\* first x[i] whose count i+1 reaches p*len(x)
RECURSIVE EmpiricalFrom(_, _, _)
EmpiricalFrom(p, x, i) ==
    IF i >= Len(x) THEN x[Len(x)]
    ELSE IF (i + 1) * Scale >= p * Len(x) THEN x[i + 1]
    ELSE EmpiricalFrom(p, x, i + 1)

StatQuantile(p, x) ==
    IF \E i \in 1..Len(x) : x[i].nan THEN NaNF ELSE EmpiricalFrom(p, x, 0)

\* series.Quantile without the shortcuts for p = 0 and p = 1
Quantile_AlwaysEmpirical(s, p) ==
    IF s.t = StringType \/ SeriesLen(s) = 0 THEN NaNF
    ELSE StatQuantile(p, Float(Subset(s, [shape |-> "ints", idx |-> Order(s, FALSE)])))

Quantile(s, p) ==
    IF s.t = StringType \/ SeriesLen(s) = 0 THEN NaNF
    ELSE IF p = 0 THEN Min(s)
    ELSE IF p = Scale THEN Max(s)
    ELSE StatQuantile(p, Float(Subset(s, [shape |-> "ints", idx |-> Order(s, FALSE)])))

(***************************************************************************)
(* series.AddConst                                                         *)
(***************************************************************************)
\* Element.SetFloat on an element of type t
ElemSetFloat(t, f) ==
    IF f.nan THEN NaE
    ELSE IF t = FloatType THEN E(f.v)
    ELSE IF t = IntType THEN E(f.v \div Scale)
    ELSE IF t = BoolType
         THEN (IF f.v = Scale THEN E(1) ELSE IF f.v = 0 THEN E(0) ELSE NaE)
    ELSE E(f.v)

\* floats.AddConst(c, dst)
FloatsAddConst(c, dst) ==
    [i \in 1..Len(dst) |-> IF dst[i].nan THEN NaNF ELSE F(dst[i].v + c)]

AddConst(s, c) ==
    LET dst == FloatsAddConst(c, Float(s))
    IN  New([i \in 1..Len(dst) |-> ElemSetFloat(s.t, dst[i])], s.t,
            <<"(">> \o s.name \o <<" + ", ToString(c), ")">>)

(***************************************************************************)
(* Construction from an interface{} value.  A value is one of              *)
(*   [kind |-> "nil"]   [kind |-> "ints", v |-> seq]   (a []int)            *)
(*   [kind |-> "series", s |-> series]                                     *)
(***************************************************************************)
Types == {StringType, IntType, FloatType, BoolType}

\* Element.SetInt on an element of type t
ElemSetInt(t, v) ==
    IF t = FloatType THEN E(v * Scale)
    ELSE IF t = BoolType THEN (IF v = 1 THEN E(1) ELSE IF v = 0 THEN E(0) ELSE NaE)
    ELSE E(v)

\* Element.SetElement on an element of type t, from an element of type from
ElemSetElement(t, from, x) ==
    IF t = from THEN SetElement(NaE, x) ELSE ElemSetFloat(t, ElemFloat(from, x))

\* Type.emptyElements panics for a type that is none of the four
EmptyElementsPanics(t) == t \notin Types

\* newSeries(values, t, name)
newSeries(values, t, name) ==
    CASE values.kind = "nil"  -> MkSeries(name, t, <<NaE>>, Nil)
      [] values.kind = "ints" ->
            MkSeries(name, t, [i \in 1..Len(values.v) |-> ElemSetInt(t, values.v[i])], Nil)
      [] values.kind = "series" ->
            MkSeries(name, t,
                     [i \in 1..SeriesLen(values.s) |->
                         ElemSetElement(t, values.s.t, values.s.elements.e[i])], Nil)

newSeriesPanics(values, t) ==
    \/ EmptyElementsPanics(t)
    \/ values.kind = "series" /\ LenPanics(values.s)

\* Ints(values), Bools(values)
Ints(v)  == newSeries([kind |-> "ints", v |-> v], IntType, <<>>)
Bools(b) == MkSeries(<<>>, BoolType, [i \in 1..Len(b) |-> E(IF b[i] THEN 1 ELSE 0)], Nil)

(***************************************************************************)
(* In-place and derived operations of a series.  Each XPanics tells when   *)
(* the call ends in a run-time panic instead of returning.                 *)
(***************************************************************************)
\* series.SetErr, series.SetName
SetErr(s, err)   == [s EXCEPT !.err = err]
SetName(s, name) == [s EXCEPT !.name = name]

\* series.Append without the check of the receiver's error
SeriesAppend_NoErrCheck(s, values) ==
    [s EXCEPT !.elements =
        Elements(s.elements.e \o newSeries(values, s.t, s.name).elements.e)]

\* series.Append: the receiver afterwards
SeriesAppend(s, values) ==
    IF s.err # Nil THEN s
    ELSE [s EXCEPT !.elements =
             Elements(s.elements.e \o newSeries(values, s.t, s.name).elements.e)]

AppendPanics(s, values) ==
    s.err = Nil /\ (newSeriesPanics(values, s.t) \/ s.elements.nil)

\* series.Concat
Concat(s, x) ==
    IF s.err # Nil THEN s
    ELSE IF Error(x) # Nil
         THEN [s EXCEPT !.err = "concat error: argument has errors"]
    ELSE SeriesAppend(Copy(s), [kind |-> "series", s |-> x])

ConcatPanics(s, x) ==
    /\ s.err = Nil /\ Error(x) = Nil
    /\ (s.elements.nil \/ AppendPanics(s, [kind |-> "series", s |-> x]))

\* the write loop of series.Set going on after a position out of range
RECURSIVE SetFrom_KeepWriting(_, _, _, _)
SetFrom_KeepWriting(s, idx, newvalues, k) ==
    IF k > Len(idx) THEN s
    ELSE IF idx[k] < 0 \/ idx[k] >= SeriesLen(s)
         THEN SetFrom_KeepWriting([s EXCEPT !.err = "set error: index out of range"],
                                  idx, newvalues, k + 1)
    ELSE SetFrom_KeepWriting(
             [s EXCEPT !.elements.e[idx[k] + 1] =
                 ElemSetElement(s.t, newvalues.t, newvalues.elements.e[k])],
             idx, newvalues, k + 1)

\* the write loop of series.Set from position k of idx (1-based)
RECURSIVE SetFrom(_, _, _, _)
SetFrom(s, idx, newvalues, k) ==
    IF k > Len(idx) THEN s
    ELSE IF idx[k] < 0 \/ idx[k] >= SeriesLen(s)
         THEN [s EXCEPT !.err = "set error: index out of range"]
    ELSE SetFrom([s EXCEPT !.elements.e[idx[k] + 1] =
                      ElemSetElement(s.t, newvalues.t, newvalues.elements.e[k])],
                 idx, newvalues, k + 1)

\* series.Set without the check of the receiver's error
Set_NoErrCheck(s, indexes, newvalues) ==
    IF Error(newvalues) # Nil
    THEN [s EXCEPT !.err = "set error: argument has errors"]
    ELSE LET p == parseIndexes(SeriesLen(s), indexes)
         IN  IF p.err # Nil THEN [s EXCEPT !.err = p.err]
             ELSE IF Len(p.idx) # SeriesLen(newvalues)
                  THEN [s EXCEPT !.err = "set error: dimensions mismatch"]
             ELSE SetFrom(s, p.idx, newvalues, 1)

\* series.Set: the receiver afterwards, which is also what is returned
Set(s, indexes, newvalues) ==
    IF s.err # Nil THEN s
    ELSE IF Error(newvalues) # Nil
         THEN [s EXCEPT !.err = "set error: argument has errors"]
    ELSE LET p == parseIndexes(SeriesLen(s), indexes)
         IN  IF p.err # Nil THEN [s EXCEPT !.err = p.err]
             ELSE IF Len(p.idx) # SeriesLen(newvalues)
                  THEN [s EXCEPT !.err = "set error: dimensions mismatch"]
             ELSE SetFrom(s, p.idx, newvalues, 1)

SetPanics(s, indexes, newvalues) ==
    /\ s.err = Nil /\ Error(newvalues) = Nil
    /\ (LenPanics(s) \/ LenPanics(newvalues))

\* series.Slice
Slice(s, start, end) ==
    IF s.err # Nil THEN s
    ELSE IF start > end \/ start < 0 \/ end > SeriesLen(s)
         THEN SetErr(Empty(s), "slice index out of bounds")
    ELSE MkSeries(s.name \o <<"_Slice(", ToString(start), ",", ToString(end), ")">>,
                  s.t, SubSeq(s.elements.e, start + 1, end), Nil)

SlicePanics(s, start, end) == s.err = Nil /\ LenPanics(s)

\* the functions given to Map: a copy of the element, or the element plus one
MapFunctions == {"copy", "inc"}
ApplyMap(f, ele, index) ==
    IF f = "inc" /\ ~ele.nan THEN E(ele.e + 1) ELSE ele

\* series.Map
Map(s, f) ==
    [name |-> s.name,
     elements |-> Elements([i \in 1..SeriesLen(s) |->
                      SetElement(NaE, ApplyMap(f, s.elements.e[i], i - 1))]),
     t |-> Type(s),
     err |-> Nil]

MapPanics(s, f) == LenPanics(s) \/ EmptyElementsPanics(Type(s))

\* the predicates given to Filter: the element is not missing, or any element
FilterFunctions == {"notNA", "all"}
ApplyFilter(ff, ele, index) == ff = "all" \/ ~ElemIsNA(ele)

RECURSIVE FilterFrom(_, _, _)
FilterFrom(es, ff, i) ==
    IF i > Len(es) THEN <<>>
    ELSE (IF ApplyFilter(ff, es[i], i - 1) THEN <<es[i]>> ELSE <<>>)
         \o FilterFrom(es, ff, i + 1)

\* series.Filter
Filter(s, ff) ==
    [name |-> s.name,
     elements |-> Elements(FilterFrom(s.elements.e, ff, 1)),
     t |-> Type(s),
     err |-> Nil]

FilterPanics(s, ff) == EmptyElementsPanics(Type(s)) \/ LenPanics(s)

(***************************************************************************)
(* series.DataQuantile.  The result is NaN or the exact fraction num/den.  *)
(***************************************************************************)
\* dataQuantile(data, ordered, length) from position i (0-based): i/length at
\* the first ordered value that data is less than, 1 when there is none
RECURSIVE dataQuantileFrom(_, _, _, _)
dataQuantileFrom(data, ordered, length, i) ==
    IF i >= Len(ordered) THEN [nan |-> FALSE, num |-> 1, den |-> 1]
    ELSE IF ~data.nan /\ ~ordered[i + 1].nan /\ data.v < ordered[i + 1].v
         THEN [nan |-> FALSE, num |-> i, den |-> length]
    ELSE dataQuantileFrom(data, ordered, length, i + 1)

dataQuantile(data, ordered, length) == dataQuantileFrom(data, ordered, length, 0)

DataQuantile(s, data) ==
    IF Type(s) = StringType \/ SeriesLen(s) = 0 THEN [nan |-> TRUE, num |-> 0, den |-> 1]
    ELSE LET tmpS == Filter(s, "notNA")
         IN  IF SeriesLen(tmpS) = 0 THEN [nan |-> TRUE, num |-> 0, den |-> 1]
             ELSE LET ordered == Float(Subset(tmpS, [shape |-> "ints",
                                                      idx |-> Order(tmpS, FALSE)]))
                      length  == IF Len(ordered) % 2 = 1 THEN Len(ordered) + 1
                                 ELSE Len(ordered)
                  IN  dataQuantile(data, ordered, length)

\* series.Shift
AbsInt(n) == IF n < 0 THEN -n ELSE n

Shift(s, periods) ==
    IF SeriesLen(s) = 0 THEN Empty(s)
    ELSE IF periods = 0 THEN Copy(s)
    ELSE LET naEles == [i \in 1..AbsInt(periods) |-> NaE]
             es     == s.elements.e
         IN  [name |-> s.name \o <<"_Shift(", ToString(periods), ")">>,
              elements |-> Elements(
                  IF periods < 0
                  THEN SubSeq(es, -periods + 1, Len(es)) \o naEles
                  ELSE naEles \o SubSeq(es, 1, Len(es) - periods)),
              t |-> s.t,
              err |-> Nil]

\* Elements.Slice(start, end) panics when start > end
ShiftPanics(s, periods) ==
    \/ LenPanics(s)
    \/ SeriesLen(s) # 0 /\ periods # 0
       /\ (EmptyElementsPanics(s.t) \/ AbsInt(periods) > SeriesLen(s))

\* series.FillNaN: the receiver afterwards
FillNaN(s, value) ==
    [s EXCEPT !.elements.e =
        [i \in 1..SeriesLen(s) |->
            IF ElemIsNA(s.elements.e[i]) THEN ElemSetInt(s.t, value)
            ELSE s.elements.e[i]]]

\* the forward loop keeping the first value it saw instead of the latest
RECURSIVE FillForwardFrom_FirstSeen(_, _, _)
FillForwardFrom_FirstSeen(es, i, lastNotNaN) ==
    IF i > Len(es) THEN es
    ELSE IF ~ElemIsNA(es[i])
         THEN FillForwardFrom_FirstSeen(es, i + 1,
                                        IF lastNotNaN.nan THEN es[i] ELSE lastNotNaN)
    ELSE IF ~lastNotNaN.nan
         THEN FillForwardFrom_FirstSeen([es EXCEPT ![i] = lastNotNaN], i + 1, lastNotNaN)
    ELSE FillForwardFrom_FirstSeen(es, i + 1, lastNotNaN)

\* the loop of series.FillNaNForward from position i (1-based); last is the
\* last value seen that is not missing, as an element, or NaE for nil
RECURSIVE FillForwardFrom(_, _, _)
FillForwardFrom(es, i, lastNotNaN) ==
    IF i > Len(es) THEN es
    ELSE IF ~ElemIsNA(es[i]) THEN FillForwardFrom(es, i + 1, es[i])
    ELSE IF ~lastNotNaN.nan
         THEN FillForwardFrom([es EXCEPT ![i] = lastNotNaN], i + 1, lastNotNaN)
    ELSE FillForwardFrom(es, i + 1, lastNotNaN)

FillNaNForward(s) == [s EXCEPT !.elements.e = FillForwardFrom(s.elements.e, 1, NaE)]

\* the loop of series.FillNaNBackward from position i (1-based) down
RECURSIVE FillBackwardFrom(_, _, _)
FillBackwardFrom(es, i, lastNotNaN) ==
    IF i < 1 THEN es
    ELSE IF ~ElemIsNA(es[i]) THEN FillBackwardFrom(es, i - 1, es[i])
    ELSE IF ~lastNotNaN.nan
         THEN FillBackwardFrom([es EXCEPT ![i] = lastNotNaN], i - 1, lastNotNaN)
    ELSE FillBackwardFrom(es, i - 1, lastNotNaN)

FillNaNBackward(s) ==
    [s EXCEPT !.elements.e = FillBackwardFrom(s.elements.e, SeriesLen(s), NaE)]

FillPanics(s) == LenPanics(s)

(***************************************************************************)
(* series.Add, Sub, Mul, Div: floats.AddTo, SubTo, MulTo, DivTo over the    *)
(* Float() of the receiver and of the operand, into a dst of the receiver's *)
(* length.  The floats functions panic when the lengths of their arguments  *)
(* differ.  An infinite quotient is held as plus or minus Inf.              *)
(***************************************************************************)
Inf == 2 ^ 30

\* one float64 operation of the floats package
FloatArith(name, a, b) ==
    IF a.nan \/ b.nan THEN NaNF
    ELSE CASE name = "Add" -> F(a.v + b.v)
           [] name = "Sub" -> F(a.v - b.v)
           [] name = "Mul" -> F((a.v \div Scale) * b.v + ((a.v % Scale) * b.v) \div Scale)
           [] name = "Div" ->
                 IF b.v = 0
                 THEN (IF a.v = 0 THEN NaNF ELSE IF a.v > 0 THEN F(Inf) ELSE F(-Inf))
                 ELSE IF b.v % Scale = 0 THEN F(a.v \div (b.v \div Scale))
                 ELSE F((a.v \div b.v) * Scale + ((a.v % b.v) * Scale) \div b.v)

ArithSign(name) ==
    CASE name = "Add" -> "+" [] name = "Sub" -> "-" [] name = "Mul" -> "*" [] name = "Div" -> "/"

\* series.Add, series.Sub, series.Mul, series.Div
Arith(name, s, c) ==
    LET sf  == Float(s)
        cf  == Float(c)
        dst == [i \in 1..SeriesLen(s) |-> FloatArith(name, sf[i], cf[i])]
    IN  New([i \in 1..Len(dst) |-> ElemSetFloat(FloatType, dst[i])], FloatType,
            <<"(">> \o s.name \o <<" ", ArithSign(name), " ">> \o Name(c) \o <<")">>)

\* floats.AddTo and the like: the lengths of dst, s and t must agree
ArithPanics(s, c) == LenPanics(s) \/ LenPanics(c) \/ SeriesLen(s) # SeriesLen(c)

(***************************************************************************)
(* series.And, series.Or.  Their bodies are not part of the sources at      *)
(* hand; they follow the specification and TestSeries_Logic: the operand    *)
(* is coerced to a Bool series and combined position by position, an        *)
(* operand of one element with every position.                              *)
(***************************************************************************)
\* And and Or sharing the operand's first element among all positions
Logic_FirstOperandOnly(name, s, in) ==
    LET x == newSeries(in, BoolType, <<>>).elements.e
    IN  Bools([i \in 1..SeriesLen(s) |->
                  IF name = "And" THEN s.elements.e[i].e = 1 /\ x[1].e = 1
                  ELSE s.elements.e[i].e = 1 \/ x[1].e = 1])

Logic(name, s, in) ==
    LET x      == newSeries(in, BoolType, <<>>).elements.e
        rhs(i) == IF Len(x) = 1 THEN x[1] ELSE x[i]
    IN  Bools([i \in 1..SeriesLen(s) |->
                  IF name = "And" THEN s.elements.e[i].e = 1 /\ rhs(i).e = 1
                  ELSE s.elements.e[i].e = 1 \/ rhs(i).e = 1])

\* the operands the two operations are specified for
LogicDefined(s, in) ==
    LET x == newSeries(in, BoolType, <<>>)
    IN  /\ Type(s) = BoolType /\ ~HasNaN(s) /\ ~HasNaN(x)
        /\ SeriesLen(x) = 1 \/ SeriesLen(x) = SeriesLen(s)

\* TestSeries_Logic: the receiver, the operand as []int, and the results
TestLogicSeries == Bools(<<FALSE, TRUE, FALSE, FALSE, TRUE>>)
TestLogicInts   == [kind |-> "ints", v |-> <<1, 0, 1, 0, 0>>]
TestLogicAnd    == Bools(<<FALSE, FALSE, FALSE, FALSE, FALSE>>)
TestLogicOr     == Bools(<<TRUE, TRUE, TRUE, FALSE, TRUE>>)

(***************************************************************************)
(* series.Compare.  The comparando is an interface{} value as for          *)
(* newSeries, or [kind |-> "func", f |-> name] for a comparison function.  *)
(***************************************************************************)
Eq        == "=="
Neq       == "!="
Greater   == ">"
GreaterEq == ">="
Less      == "<"
LessEq    == "<="
In        == "in"
CompFunc  == "func"
KnownComparators == {Eq, Neq, Greater, GreaterEq, Less, LessEq}

ElemNeq(a, b)       == ~a.nan /\ ~b.nan /\ a.e # b.e
ElemLessEq(a, b)    == ~a.nan /\ ~b.nan /\ a.e <= b.e
ElemGreaterEq(a, b) == ~a.nan /\ ~b.nan /\ a.e >= b.e

\* compareElements; the error is that of an unknown comparator
compareElements(a, b, c) ==
    CASE c = Eq        -> [ret |-> ElemEq(a, b), err |-> Nil]
      [] c = Neq       -> [ret |-> ElemNeq(a, b), err |-> Nil]
      [] c = Greater   -> [ret |-> ElemGreater(a, b), err |-> Nil]
      [] c = GreaterEq -> [ret |-> ElemGreaterEq(a, b), err |-> Nil]
      [] c = Less      -> [ret |-> ElemLess(a, b), err |-> Nil]
      [] c = LessEq    -> [ret |-> ElemLessEq(a, b), err |-> Nil]
      [] OTHER         -> [ret |-> FALSE, err |-> "unknown comparator"]

\* the comparison functions given with CompFunc
CompFunctions == {"isNA", "positive"}
ApplyComp(f, el) == IF f = "isNA" THEN ElemIsNA(el) ELSE ~el.nan /\ el.e > 0

\* series.Compare without the branch for a right-hand side of one element
Compare_NoBroadcast(s, comparator, comparando) ==
    IF s.err # Nil THEN s
    ELSE LET comp == newSeries(comparando, s.t, <<>>)
             es   == s.elements.e
             ces  == comp.elements.e
         IN  IF SeriesLen(s) # SeriesLen(comp)
             THEN SetErr(Empty(s), "can't compare: length mismatch")
             ELSE Bools([i \in 1..Len(es) |->
                            compareElements(es[i], ces[i], comparator).ret])

Compare(s, comparator, comparando) ==
    IF s.err # Nil THEN s
    ELSE IF comparator = CompFunc
         THEN Bools([i \in 1..SeriesLen(s) |-> ApplyComp(comparando.f, s.elements.e[i])])
    ELSE LET comp == newSeries(comparando, s.t, <<>>)
             es   == s.elements.e
             ces  == comp.elements.e
         IN  IF comparator = In
             THEN Bools([i \in 1..Len(es) |->
                            \E j \in 1..Len(ces) : compareElements(es[i], ces[j], Eq).ret])
             ELSE IF SeriesLen(comp) = 1
                  THEN IF Len(es) > 0 /\ comparator \notin KnownComparators
                       THEN SetErr(Empty(s), "unknown comparator")
                       ELSE Bools([i \in 1..Len(es) |->
                                      compareElements(es[i], ces[1], comparator).ret])
             ELSE IF SeriesLen(s) # SeriesLen(comp)
                  THEN SetErr(Empty(s), "can't compare: length mismatch")
             ELSE IF Len(es) > 0 /\ comparator \notin KnownComparators
                  THEN SetErr(Empty(s), "unknown comparator")
             ELSE Bools([i \in 1..Len(es) |->
                            compareElements(es[i], ces[i], comparator).ret])

ComparePanics(s, comparator, comparando) ==
    /\ s.err = Nil
    /\ \/ LenPanics(s)
       \/ comparator = CompFunc /\ comparando.kind # "func"
       \/ comparator # CompFunc /\ newSeriesPanics(comparando, s.t)

(***************************************************************************)
(* Cache: a map from cache key to a stored result, held by reference.      *)
(* caches is the store of all Cache objects; a reference is an index.      *)
(***************************************************************************)
EmptyCache == [k \in {} |-> 0]

\* Cache.Get
CacheGet(c, cacheKey) ==
    IF cacheKey \in DOMAIN c THEN [ret |-> c[cacheKey], found |-> TRUE]
    ELSE [ret |-> 0, found |-> FALSE]

\* Cache.Set
CacheSet(c, cacheKey, value) ==
    [k \in DOMAIN c \cup {cacheKey} |-> IF k = cacheKey THEN value ELSE c[k]]

\* Cache.Copy: a new map with the same entries
CacheCopy(c) == [k \in DOMAIN c |-> c[k]]

(***************************************************************************)
(* Cache keys: the operation's name and the text of its arguments.         *)
(***************************************************************************)
\* the text of fmt's %f for x: sign, and |x| rounded to FmtPrecision decimals
SprintfF(x) ==
    LET mag  == IF x < 0 THEN -x ELSE x
        unit == Scale \div (10 ^ FmtPrecision)
    IN  <<IF x < 0 THEN 1 ELSE 0, (2 * mag + unit) \div (2 * unit)>>

\* the text of fmt's %v for a bool
SprintfV(b) == <<IF b THEN 1 ELSE 0>>

\* a call of a cached operation: [op |-> name, arg |-> argument]; the argument
\* is a float64, or 1 for true and 0 for false, or NoArg
NoArg == 0
Call(name, arg) == [op |-> name, arg |-> arg]

CacheKey(call) ==
    CASE call.op \in {"Quantile", "AddConst"} ->
            [op |-> call.op, text |-> SprintfF(call.arg)]
      [] call.op = "Order" -> [op |-> call.op, text |-> SprintfV(call.arg = 1)]
      [] OTHER -> [op |-> call.op, text |-> <<>>]

(***************************************************************************)
(* cacheAbleSeries                                                         *)
(***************************************************************************)
\* cacheOrExecute forgetting to store the computed result
cacheOrExecute_NoStore(c, cacheKey, f) ==
    LET g == CacheGet(c, cacheKey)
    IN  IF g.found
        THEN [ret |-> g.ret, err |-> Nil, c |-> c, executed |-> FALSE]
        ELSE [ret |-> f.ret, err |-> f.err, c |-> c, executed |-> TRUE]

\* cacheOrExecute storing the result whether or not the computation failed
cacheOrExecute_StoreOnError(c, cacheKey, f) ==
    LET g == CacheGet(c, cacheKey)
    IN  IF g.found
        THEN [ret |-> g.ret, err |-> Nil, c |-> c, executed |-> FALSE]
        ELSE [ret |-> f.ret, err |-> f.err, c |-> CacheSet(c, cacheKey, f.ret),
              executed |-> TRUE]

\* cacheAbleSeries.cacheOrExecute on the Cache c; f is the outcome [ret, err]
\* of the closure, used only on a miss
cacheOrExecute(c, cacheKey, f) ==
    LET g == CacheGet(c, cacheKey)
    IN  IF g.found
        THEN [ret |-> g.ret, err |-> Nil, c |-> c, executed |-> FALSE]
        ELSE [ret |-> f.ret, err |-> f.err,
              c |-> IF f.err = Nil THEN CacheSet(c, cacheKey, f.ret) ELSE c,
              executed |-> TRUE]

\* the closure each cached method passes to cacheOrExecute: the wrapped
\* series' own method; newRef is the Cache a derived result is wrapped with
Closure(target, call, newRef) ==
    CASE call.op = "Mean"     -> [ret |-> Mean(target), err |-> Nil]
      [] call.op = "Float"    -> [ret |-> Float(target), err |-> Nil]
      [] call.op = "IsNaN"    -> [ret |-> IsNaN(target), err |-> Nil]
      [] call.op = "Int"      -> [ret |-> SeriesInt(target).val,
                                  err |-> SeriesInt(target).err]
      [] call.op = "Bool"     -> [ret |-> SeriesBool(target).val,
                                  err |-> SeriesBool(target).err]
      [] call.op = "Order"    -> [ret |-> Order(target, call.arg = 1), err |-> Nil]
      [] call.op = "Quantile" -> [ret |-> Quantile(target, call.arg), err |-> Nil]
      [] call.op = "Max"      -> [ret |-> Max(target), err |-> Nil]
      [] call.op = "Min"      -> [ret |-> Min(target), err |-> Nil]
      [] call.op = "AddConst" ->
            [ret |-> [Series |-> AddConst(target, call.arg), c |-> newRef],
             err |-> Nil]

\* the operations whose closure wraps a derived series with CacheAble()
DerivedOps == {"AddConst"}

\* newCacheAbleSeries(s) with the Cache reference ref
newCacheAbleSeries(s, ref) == [Series |-> s, c |-> ref]

(***************************************************************************)
(* SpecCache: calls of cached operations on a wrapper and on its copy.     *)
(***************************************************************************)
Orig == "orig"
Cpy  == "copy"

One == Scale
\* the series a cache wrapper is built around
CacheTargets ==
    { New(<<E(One), E(0)>>, FloatType, <<"x">>),
      New(<<E(2 * One), E(One), E(3 * One)>>, FloatType, <<"x">>),
      New(<<E(One), NaE>>, FloatType, <<"x">>) }

\* arguments of Quantile: 0, 0.4999996, 0.5000001, 1
QuantileArgs == {0, (One \div 2) - 4, (One \div 2) + 1, One}
\* arguments of AddConst: 0, 0.0000004, 1
ConstArgs == {0, 4, One}

CacheCalls ==
    {Call("Mean", NoArg), Call("Float", NoArg), Call("Int", NoArg), Call("Bool", NoArg)}
    \cup {Call("Order", r) : r \in {0, 1}}
    \cup {Call("Quantile", q) : q \in QuantileArgs}
    \cup {Call("AddConst", k) : k \in ConstArgs}

NoCall == [w |-> "", call |-> Call("", NoArg), key |-> CacheKey(Call("", NoArg)),
           ret |-> 0, err |-> Nil, executed |-> FALSE]

Count(w, call) == IF <<w, call>> \in DOMAIN execs THEN execs[<<w, call>>] ELSE 0

\* the variables of the other specifications, at rest
IdleCache ==
    /\ wrappers = EmptyCache /\ caches = <<>> /\ execs = EmptyCache
    /\ firstRet = EmptyCache /\ last = NoCall /\ steps = 0
IdleSeries ==
    /\ recv = Err(Nil) /\ ret = 0 /\ op = [name |-> ""] /\ panicked = FALSE
NoView == [window |-> 0, minPeriods |-> 0, agg |-> "", weights |-> <<>>, pass |-> 0]
IdleRolling ==
    /\ rsrc = Err(Nil) /\ rview = NoView /\ rout = 0
NoDerived == [name |-> <<>>, t |-> "", elements |-> [nil |-> TRUE, arr |-> 0, off |-> 0, len |-> 0],
              err |-> Nil]
NoStorageOp == [name |-> "", target |-> "", n |-> 0]
IdleStorage ==
    /\ heap = <<>> /\ hsrc = NoDerived /\ hder = NoDerived /\ hop = NoStorageOp

InitCache ==
    /\ \E s \in CacheTargets : wrappers = [w \in {Orig} |-> newCacheAbleSeries(s, 1)]
    /\ caches = <<EmptyCache>>
    /\ execs = EmptyCache
    /\ firstRet = EmptyCache
    /\ last = NoCall
    /\ steps = 0
    /\ IdleSeries /\ IdleRolling /\ IdleStorage

\* a cached method of the wrapper w is called
CachedCall(w, call) ==
    /\ steps < MaxSteps
    /\ w \in DOMAIN wrappers
    /\ LET cs     == wrappers[w]
           newRef == Len(caches) + 1
           r      == cacheOrExecute(caches[cs.c], CacheKey(call),
                                    Closure(cs.Series, call, newRef))
           stored == [caches EXCEPT ![cs.c] = r.c]
       IN  /\ caches' = IF r.executed /\ call.op \in DerivedOps
                        THEN Append(stored, EmptyCache) ELSE stored
           /\ last' = [w |-> w, call |-> call, key |-> CacheKey(call),
                       ret |-> r.ret, err |-> r.err, executed |-> r.executed]
           /\ execs' = IF r.executed
                       THEN CacheSet(execs, <<w, call>>, Count(w, call) + 1)
                       ELSE execs
           /\ firstRet' = IF <<w, call>> \in DOMAIN firstRet THEN firstRet
                          ELSE CacheSet(firstRet, <<w, call>>, r.ret)
    /\ steps' = steps + 1
    /\ UNCHANGED <<wrappers, seriesVars, rollVars, heapVars>>

\* Copy handing the original's Cache to the copy instead of a copy of it
CacheAbleCopy_SharedCache(cs, newRef) == [Series |-> Copy(cs.Series), c |-> cs.c]

\* cacheAbleSeries.Copy: the wrapped series and the cache are both copied
CacheAbleCopy(cs, newRef) == [Series |-> Copy(cs.Series), c |-> newRef]

CopyCall ==
    /\ steps < MaxSteps
    /\ Cpy \notin DOMAIN wrappers
    /\ LET cs == wrappers[Orig]
           newRef == Len(caches) + 1
       IN  /\ caches' = Append(caches, CacheCopy(caches[cs.c]))
           /\ wrappers' = [w \in {Orig, Cpy} |->
                              IF w = Orig THEN cs ELSE CacheAbleCopy(cs, newRef)]
    /\ last' = [NoCall EXCEPT !.w = Orig, !.call = Call("Copy", NoArg)]
    /\ steps' = steps + 1
    /\ UNCHANGED <<execs, firstRet, seriesVars, rollVars, heapVars>>

NextCache ==
    \/ \E w \in {Orig, Cpy}, call \in CacheCalls : CachedCall(w, call)
    \/ CopyCall

SpecCache == InitCache /\ [][NextCache]_vars

(***************************************************************************)
(* Claims about the memoization wrapper (SpecCache)                        *)
(***************************************************************************)
\* the wrapped series' own result for a call
Direct(w, call) == Closure(wrappers[w].Series, call, 0)

\* C1: on a cache-wrapped series, the calls of one cached read operation with
\* the same arguments invoke the wrapped series' computation at most once in
\* total (the computation being one that returns no error), and every later
\* call returns the value the first call returned.
C1_AtMostOnceSameValue ==
    /\ \A k \in DOMAIN execs : Direct(k[1], k[2]).err = Nil => execs[k] <= 1
    /\ (last.w # "" /\ last.call.op # "Copy" /\ last.err = Nil)
          => last.ret = firstRet[<<last.w, last.call>>]

\* a second call of an operation whose first call computed it is a hit
C1_Witness ==
    /\ last.w # "" /\ last.call.op # "Copy"
    /\ ~last.executed
    /\ Count(last.w, last.call) = 1

\* C2: whatever calls came before, Quantile(p), AddConst(c) and Order(reverse)
\* on the wrapper return exactly what the wrapped series returns for that
\* argument: calls with different arguments never share a cache entry.
C2_ArgumentsNeverShareEntry ==
    /\ (last.w # "" /\ last.call.op \in {"Quantile", "Order"})
          => last.ret = Direct(last.w, last.call).ret
    /\ (last.w # "" /\ last.call.op = "AddConst")
          => last.ret.Series = Direct(last.w, last.call).ret.Series

\* a call happened in this step
Called == steps' # steps /\ last'.call.op # "Copy"

\* C3: a cached operation whose computation returns an error stores nothing:
\* the caches are unchanged by the call, its key is absent afterwards, and the
\* same call made next invokes the wrapped series again; an entry appears in a
\* cache only by a call that returned no error, under that call's key.
C3_FailedNeverCached ==
    [][ /\ (Called /\ last'.err # Nil)
            => /\ caches' = caches
               /\ last'.executed
               /\ last'.key \notin DOMAIN caches'[wrappers[last'.w].c]
        /\ (Called /\ last.err # Nil /\ last'.w = last.w /\ last'.call = last.call)
            => last'.executed
        /\ \A ref \in DOMAIN caches :
             \A k \in DOMAIN caches'[ref] \ DOMAIN caches[ref] :
                Called /\ last'.err = Nil /\ k = last'.key
      ]_vars

\* Int() failed twice in a row, computed both times, and nothing is stored
C3_Witness ==
    /\ last.w # "" /\ last.err # Nil
    /\ Count(last.w, last.call) = 2
    /\ last.key \notin DOMAIN caches[wrappers[last.w].c]

\* the other wrapper
Other(w) == IF w = Orig THEN Cpy ELSE Orig

\* C4: Copy() of a cache wrapper yields a wrapper with a Cache of its own in
\* which every key cached in the original at copy time hits with the same
\* result; afterwards entries are never lost, and a call through one wrapper
\* leaves the Cache of the other wrapper unchanged.
C4_CopyWarmAndIndependent ==
    [][ /\ (Cpy \notin DOMAIN wrappers /\ Cpy \in DOMAIN wrappers')
            => /\ wrappers'[Cpy].c # wrappers'[Orig].c
               /\ wrappers'[Cpy].Series = wrappers[Orig].Series
               /\ \A k \in DOMAIN caches[wrappers[Orig].c] :
                     LET r == cacheOrExecute(caches'[wrappers'[Cpy].c], k,
                                             [ret |-> 0, err |-> Nil])
                     IN  ~r.executed /\ r.ret = caches[wrappers[Orig].c][k]
        /\ (Cpy \in DOMAIN wrappers /\ Called)
            => /\ caches'[wrappers[Other(last'.w)].c] = caches[wrappers[Other(last'.w)].c]
               /\ \A k \in DOMAIN caches[wrappers[last'.w].c] :
                     /\ k \in DOMAIN caches'[wrappers[last'.w].c]
                     /\ caches'[wrappers[last'.w].c][k] = caches[wrappers[last'.w].c][k]
      ]_vars

\* a call through the copy hit an entry inherited from the original, and the
\* two caches have since come to differ
C4_Witness ==
    /\ Cpy \in DOMAIN wrappers
    /\ last.w = Cpy /\ ~last.executed /\ Count(Cpy, last.call) = 0
    /\ last.key \in DOMAIN caches[wrappers[Orig].c]

(***************************************************************************)
(* SpecSeries: one series object, made by a constructor, under its public  *)
(* operations.  recv is the object; ret is what the last operation         *)
(* returned; a panic ends the behaviour.                                   *)
(***************************************************************************)
RECURSIVE SeqsUpTo(_, _)
\* the sequences over S of length at most n
SeqsUpTo(S, n) ==
    IF n = 0 THEN {<<>>}
    ELSE LET shorter == SeqsUpTo(S, n - 1)
         IN  shorter \cup {Append(q, x) : q \in {r \in shorter : Len(r) = n - 1}, x \in S}

IntValues == {0, 1}
IntElems  == {E(v) : v \in IntValues} \cup {NaE}
SomeError == "E"

\* the series the operations start from: Ints(...) with or without missing
\* elements, and Err(err)
FreshSeries ==
    {MkSeries(<<>>, IntType, es, Nil) : es \in SeqsUpTo(IntElems, MaxLen)}
    \cup {Err(SomeError)}

\* series given as arguments to Concat, Set, Append and Compare
ArgSeries ==
    { Ints(<<>>), Ints(<<1>>), Ints(<<0, 1>>),
      MkSeries(<<>>, IntType, <<NaE>>, Nil), Err(SomeError) }

\* series given as indexes: positions, a position out of range, a missing
\* element, a poisoned series, masks, and a Float series
IndexSeries ==
    { Ints(<<0>>), Ints(<<1, 0>>), Ints(<<MaxLen>>),
      MkSeries(<<>>, IntType, <<NaE>>, Nil), Err(SomeError),
      Bools(<<TRUE>>), Bools(<<TRUE, FALSE>>),
      MkSeries(<<>>, FloatType, <<E(0)>>, Nil) }

Positions == -1..MaxLen
IndexSpecs ==
    {[shape |-> "int", i |-> i] : i \in Positions}
    \cup {[shape |-> "ints", idx |-> q] : q \in SeqsUpTo(Positions, 2)}
    \cup {[shape |-> "bools", bools |-> b] : b \in SeqsUpTo(BOOLEAN, MaxLen)}
    \cup {[shape |-> "series", s |-> x] : x \in IndexSeries}
    \cup {[shape |-> "other"]}

Values ==
    {[kind |-> "ints", v |-> q] : q \in SeqsUpTo(IntValues, 2)}
    \cup {[kind |-> "series", s |-> x] : x \in ArgSeries}
    \cup {[kind |-> "nil"]}

NoOp == [name |-> ""]

\* a series is poisoned when its error slot is not empty
Poisoned(s) == Error(s) # Nil

InitSeries ==
    /\ recv \in FreshSeries
    /\ ret = 0
    /\ op = NoOp
    /\ panicked = FALSE
    /\ IdleCache /\ IdleRolling /\ IdleStorage

\* one call: it panics, or it leaves the receiver as newRecv and returns newRet
Returns(name, panics, newRecv, newRet) ==
    /\ ~panicked
    /\ op' = [name |-> name]
    /\ IF panics
       THEN panicked' = TRUE /\ UNCHANGED <<recv, ret>>
       ELSE panicked' = FALSE /\ recv' = newRecv /\ ret' = newRet
    /\ UNCHANGED <<cacheVars, rollVars, heapVars>>

DoSetErr  == \E err \in {Nil, SomeError} : Returns("SetErr", FALSE, SetErr(recv, err), 0)
DoSetName == \E n \in {<<>>, <<"x">>} : Returns("SetName", FALSE, SetName(recv, n), 0)
DoError   == Returns("Error", FALSE, recv, Error(recv))
DoType    == Returns("Type", FALSE, recv, Type(recv))
DoName    == Returns("Name", FALSE, recv, Name(recv))
DoLen     == Returns("Len", LenPanics(recv), recv, SeriesLen(recv))

DoAppend ==
    \E values \in Values :
        /\ values.kind = "series" => ~values.s.elements.nil
        /\ Poisoned(recv)
           \/ SeriesLen(recv) + Len(newSeries(values, IntType, <<>>).elements.e) <= MaxLen
        /\ Returns("Append", AppendPanics(recv, values), SeriesAppend(recv, values), 0)

DoSet ==
    \E indexes \in IndexSpecs, newvalues \in ArgSeries :
        LET after == Set(recv, indexes, newvalues)
        IN  Returns("Set", SetPanics(recv, indexes, newvalues), after, after)

DoSubset ==
    \E indexes \in IndexSpecs :
        Returns("Subset", SubsetPanics(recv, indexes), recv, Subset(recv, indexes))

DoConcat ==
    \E x \in ArgSeries :
        Returns("Concat", ConcatPanics(recv, x), recv, Concat(recv, x))

DoCompare ==
    \E comparator \in KnownComparators \cup {In, CompFunc, "~"},
       comparando \in Values \cup {[kind |-> "func", f |-> f] : f \in CompFunctions} :
        /\ comparando.kind = "func" => comparator = CompFunc
        /\ comparando.kind = "series" => ~comparando.s.elements.nil
        /\ Returns("Compare", ComparePanics(recv, comparator, comparando), recv,
                   Compare(recv, comparator, comparando))

DoSlice ==
    \E start \in Positions, end \in Positions :
        Returns("Slice", SlicePanics(recv, start, end), recv, Slice(recv, start, end))

DoCopy == Returns("Copy", recv.elements.nil, recv, Copy(recv))

DoMap == \E f \in MapFunctions : Returns("Map", MapPanics(recv, f), recv, Map(recv, f))

DoFilter ==
    \E ff \in FilterFunctions :
        Returns("Filter", FilterPanics(recv, ff), recv, Filter(recv, ff))

DoShift ==
    \E periods \in -(MaxLen + 1)..(MaxLen + 1) :
        Returns("Shift", ShiftPanics(recv, periods), recv, Shift(recv, periods))

DoFillNaN ==
    \E value \in IntValues :
        Returns("FillNaN", FillPanics(recv), FillNaN(recv, value), 0)

DoFillNaNForward ==
    Returns("FillNaNForward", FillPanics(recv), FillNaNForward(recv), 0)

DoFillNaNBackward ==
    Returns("FillNaNBackward", FillPanics(recv), FillNaNBackward(recv), 0)

NextSeries ==
    \/ DoSetErr \/ DoSetName \/ DoError \/ DoType \/ DoName \/ DoLen
    \/ DoAppend \/ DoSet \/ DoSubset \/ DoConcat \/ DoCompare \/ DoSlice
    \/ DoCopy \/ DoMap \/ DoFilter \/ DoShift
    \/ DoFillNaN \/ DoFillNaNForward \/ DoFillNaNBackward

SpecSeries == InitSeries /\ [][NextSeries]_vars

(***************************************************************************)
(* Claims about the poisoned state of a series (SpecSeries)                *)
(***************************************************************************)
\* the operations that return a derived series and leave the receiver as it is
DerivedSeriesOps ==
    {"Subset", "Concat", "Compare", "Slice", "Copy", "Map", "Filter", "Shift"}

\* C7: a series object has no Poisoned to Valid transition: once Error() is
\* non-nil it stays non-nil under every public operation applied to the object.
C7_NoPoisonedToValid == [][Poisoned(recv) => Poisoned(recv')]_vars

\* C8: every derived-series operation called on a poisoned receiver returns a
\* series whose Error() is non-nil.
C8_DerivedPropagatesPoison ==
    (op.name \in DerivedSeriesOps /\ Poisoned(recv) /\ ~panicked) => Poisoned(ret)

\* C9: on a poisoned receiver Set and Append are no-ops: the elements, the
\* length and the stored error of the receiver are unchanged (and so are its
\* name and type), and Set returns the receiver as it was.
C9_PoisonedSetAppendNoOp ==
    [][ (op'.name \in {"Set", "Append"} /\ Poisoned(recv))
            => /\ recv' = recv
               /\ ~panicked'
               /\ op'.name = "Set" => ret' = recv
      ]_vars

\* Set was called on a poisoned series that holds elements
C9_Witness ==
    /\ op.name = "Set" /\ Poisoned(recv) /\ ~panicked
    /\ ~recv.elements.nil /\ SeriesLen(recv) = MaxLen
    /\ ret = recv

\* C10: no operation panics on a poisoned series, a series built by Err(err)
\* included: the call completes normally and Error() still reports the error.
C10_NoPanicOnPoisoned == Poisoned(recv) => ~panicked

(***************************************************************************)
(* Rolling window engine.  A rolling view is a window, a minimum number of *)
(* periods and a source series; each aggregate is a series aligned with    *)
(* the source.                                                             *)
(***************************************************************************)
NewRollingSeries(window, minPeriods, s) ==
    [window |-> window, minPeriods |-> minPeriods, Series |-> s]

\* a window that always opens at the start of the source
WindowStart_FromZero(i, window) == 0

\* the first position (0-based) of the window that ends at position i
WindowStart(i, window) == IF i - window + 1 > 0 THEN i - window + 1 ELSE 0

\* the elements of the window ending at position i
Block(r, i) == SubSeq(r.Series.elements.e, WindowStart(i, r.window) + 1, i + 1)

\* the position has no value: too few positions, or a missing element
BlockMissing(r, blk) ==
    Len(blk) < r.minPeriods \/ (\E j \in 1..Len(blk) : ElemIsNA(blk[j]))

\* an aggregate series of type t: aggs[i] at every position i that is not
\* missing, aggs[i] being the aggregate of the window at i
RollingApply(r, t, aggs) ==
    MkSeries(r.Series.name, t,
             [i \in 1..SeriesLen(r.Series) |->
                 IF BlockMissing(r, Block(r, i - 1)) THEN NaE ELSE aggs[i]],
             Nil)

\* the window as a series of the source's type
BlockSeries(r, blk) == MkSeries(r.Series.name, r.Series.t, blk, Nil)

\* Max and Min keep the type of the source
RollingMax(r) ==
    RollingApply(r, r.Series.t,
                 [i \in 1..SeriesLen(r.Series) |->
                     LET blk == Block(r, i - 1) IN MaxFrom(blk, 2, blk[1])])
RollingMin(r) ==
    RollingApply(r, r.Series.t,
                 [i \in 1..SeriesLen(r.Series) |->
                     LET blk == Block(r, i - 1) IN MinFrom(blk, 2, blk[1])])

\* Mean is a Float series; a mean is kept as the exact fraction num/den, in
\* the unit of the source's elements
RollingMean(r) ==
    RollingApply(r, FloatType,
                 [i \in 1..SeriesLen(r.Series) |->
                     LET blk == Block(r, i - 1)
                     IN  E([num |-> SumSeq([j \in 1..Len(blk) |-> blk[j].e]),
                            den |-> Len(blk)])])

\* Median is a Float series
RollingMedian(r) ==
    RollingApply(r, FloatType,
                 [i \in 1..SeriesLen(r.Series) |->
                     ElemSetFloat(FloatType, Median(BlockSeries(r, Block(r, i - 1))))])

\* StdDev is a Float series
RollingStdDev(r) ==
    RollingApply(r, FloatType,
                 [i \in 1..SeriesLen(r.Series) |->
                     LET d == StdDev(BlockSeries(r, Block(r, i - 1)))
                     IN  IF d.nan THEN NaE ELSE E([of |-> d.of])])

\* MeanByWeights with every window paired with the first weights
RollingMeanByWeights_FirstWeights(r, weights) ==
    RollingApply(r, FloatType,
                 [i \in 1..SeriesLen(r.Series) |->
                     LET blk == Block(r, i - 1)
                     IN  E([num |-> SumSeq([j \in 1..Len(blk) |-> blk[j].e * weights[j]]),
                            den |-> SumSeq([j \in 1..Len(blk) |-> weights[j]])])])

\* MeanByWeights: the values of the window paired with the last weights, the
\* weighted sum over the sum of the weights used, as the exact fraction
\* num/den in the unit of the source's elements
RollingMeanByWeights(r, weights) ==
    RollingApply(r, FloatType,
                 [i \in 1..SeriesLen(r.Series) |->
                     LET blk  == Block(r, i - 1)
                         skip == Len(weights) - Len(blk)
                     IN  E([num |-> SumSeq([j \in 1..Len(blk) |->
                                        blk[j].e * weights[skip + j]]),
                            den |-> SumSeq([j \in 1..Len(blk) |-> weights[skip + j]])])])

(***************************************************************************)
(* The series and expected results of the rolling tests                    *)
(***************************************************************************)
\* The Float series of the tests are held in units of 10^-6, the precision
\* of the test data; Max, Min and the weighted mean do not depend on the unit.
Floats(v) == MkSeries(<<>>, FloatType, [i \in 1..Len(v) |-> E(v[i])], Nil)

\* Floats 1.5, -3.23, -0.337397, -0.380079, 1.60979, 34.
TestFloats == Floats(<<1500000, -3230000, -337397, -380079, 1609790, 34000000>>)
\* Floats 23, 13, 101, -64, -3
TestFloats2 == Floats(<<23000000, 13000000, 101000000, -64000000, -3000000>>)
\* Ints 23, 13, 101, -64, -3
TestInts   == Ints(<<23, 13, 101, -64, -3>>)
\* Bools false, true, false, false, true
TestBools  == Bools(<<FALSE, TRUE, FALSE, FALSE, TRUE>>)

\* window 3, minPeriods 2 on TestFloats: Max, Max of the rolled Max, Min,
\* Min of the rolled Min
TestFloatsMax ==
    <<NaE, E(1500000), E(1500000), E(-337397), E(1609790), E(34000000)>>
TestFloatsMaxRolling ==
    <<NaE, NaE, NaE, E(1500000), E(1609790), E(34000000)>>
TestFloatsMin ==
    <<NaE, E(-3230000), E(-3230000), E(-3230000), E(-380079), E(-380079)>>
TestFloatsMinRolling ==
    <<NaE, NaE, NaE, E(-3230000), E(-3230000), E(-3230000)>>
\* window 3, minPeriods 1 on TestInts: Max (rolled again: the same), Min
\* (rolled again: the same)
TestIntsMax == <<E(23), E(23), E(101), E(101), E(101)>>
TestIntsMin == <<E(23), E(13), E(13), E(-64), E(-64)>>
\* window 2, minPeriods 1 on TestBools: Max, Max of the rolled Max, Min
TestBoolsMax        == <<E(0), E(1), E(1), E(0), E(1)>>
TestBoolsMaxRolling == <<E(0), E(1), E(1), E(1), E(1)>>
TestBoolsMin        == <<E(0), E(0), E(0), E(0), E(0)>>

\* window 3, minPeriods 2 on TestFloats: Median
TestFloatsMedian ==
    <<NaE, E(-865000), E(-337397), E(-380079), E(-337397), E(1609790)>>
\* window 3, minPeriods 1 on TestInts: Median 23, 18, 23, 13, -3
TestIntsMedian ==
    <<E(23 * Scale), E(18 * Scale), E(23 * Scale), E(13 * Scale), E(-3 * Scale)>>
\* window 2, minPeriods 1 on TestBools: Median
TestBoolsMedian == <<NaE, NaE, NaE, NaE, NaE>>
\* the positions where the expected StdDev is NaN: window 2, minPeriods 1 on
\* TestBools; window 3, minPeriods 2 on TestFloats; window 3, minPeriods 1
\* on TestInts
TestBoolsStdDevNaN  == <<TRUE, FALSE, FALSE, FALSE, FALSE>>
TestFloatsStdDevNaN == <<TRUE, FALSE, FALSE, FALSE, FALSE, FALSE>>
TestIntsStdDevNaN   == <<TRUE, FALSE, FALSE, FALSE, FALSE>>

\* the weights 5, 3, 2 (0.5, 0.3, 0.2 in tenths)
TestWeights == <<5, 3, 2>>
\* an expected value num/den, in units of 10^-6; nan for NaN
Expect(num, den) == [nan |-> FALSE, num |-> num, den |-> den]
ExpectNaN == [nan |-> TRUE, num |-> 0, den |-> 1]
\* MeanByWeights, window 3, minPeriods 2 on TestFloats:
\* NaN, -0.392, -0.2864794, -1.7922349, 0.0392358, 7.0928975
TestFloatsMeanByWeights ==
    <<ExpectNaN, Expect(-3920000, 10), Expect(-2864794, 10),
      Expect(-17922349, 10), Expect(392358, 10), Expect(70928975, 10)>>
\* MeanByWeights, window 3, minPeriods 1 on TestFloats2: 23, 19, 35.6, 24, 30.7
TestFloats2MeanByWeights ==
    <<Expect(23000000, 1), Expect(19000000, 1), Expect(35600000, 1),
      Expect(24000000, 1), Expect(30700000, 1)>>

\* a rolled mean equals the expected value
MeanEquals(x, want) ==
    IF want.nan THEN ElemIsNA(x)
    ELSE ~ElemIsNA(x) /\ x.e.num * want.den = want.num * x.e.den

(***************************************************************************)
(* SpecRolling: aggregates of rolling views of a source, and rolling views *)
(* of a rolled result.                                                     *)
(***************************************************************************)
RollElems == {E(v) : v \in IntValues} \cup {NaE}

RollSources ==
    {MkSeries(<<>>, IntType, es, Nil) : es \in SeqsUpTo(RollElems, RollLen)}
    \cup {TestFloats, TestFloats2, TestInts, TestBools}

WeightSets == {TestWeights, <<1, 1>>, <<2>>, <<1, 2, 3, 4>>}

InitRolling ==
    /\ rsrc \in RollSources
    /\ rview = NoView
    /\ rout = 0
    /\ IdleCache /\ IdleSeries /\ IdleStorage

\* an aggregate of the view rsrc.Rolling(window, minPeriods); it depends on
\* the source and the view only, so a behaviour takes one aggregate of a source
Roll(agg, window, minPeriods, weights, result) ==
    /\ rview.agg = ""
    /\ rview' = [window |-> window, minPeriods |-> minPeriods, agg |-> agg,
                 weights |-> weights,
                 pass |-> IF rview.pass = 0 THEN 1 ELSE rview.pass]
    /\ rout' = result
    /\ UNCHANGED <<rsrc, cacheVars, seriesVars, heapVars>>

RollMax ==
    \E window \in 1..MaxWindow : \E minPeriods \in 0..window :
        Roll("Max", window, minPeriods, <<>>,
             RollingMax(NewRollingSeries(window, minPeriods, rsrc)))

RollMin ==
    \E window \in 1..MaxWindow : \E minPeriods \in 0..window :
        Roll("Min", window, minPeriods, <<>>,
             RollingMin(NewRollingSeries(window, minPeriods, rsrc)))

RollMean ==
    \E window \in 1..MaxWindow : \E minPeriods \in 0..window :
        Roll("Mean", window, minPeriods, <<>>,
                RollingMean(NewRollingSeries(window, minPeriods, rsrc)))

RollMedian ==
    \E window \in 1..MaxWindow : \E minPeriods \in 0..window :
        Roll("Median", window, minPeriods, <<>>,
                RollingMedian(NewRollingSeries(window, minPeriods, rsrc)))

RollStdDev ==
    \E window \in 1..MaxWindow : \E minPeriods \in 0..window :
        Roll("StdDev", window, minPeriods, <<>>,
                RollingStdDev(NewRollingSeries(window, minPeriods, rsrc)))

RollMeanByWeights ==
    \E weights \in WeightSets : \E minPeriods \in 0..Len(weights) :
        /\ Len(weights) <= MaxWindow
        /\ Roll("MeanByWeights", Len(weights), minPeriods, weights,
                RollingMeanByWeights(NewRollingSeries(Len(weights), minPeriods, rsrc),
                                     weights))

\* b.Rolling(window, minPeriods) on a rolled Max or Min: the result becomes
\* the source of a new view
RollResult ==
    /\ rview.agg \in {"Max", "Min"}
    /\ rview.pass < MaxPasses
    /\ rsrc' = rout
    /\ rview' = [NoView EXCEPT !.pass = rview.pass + 1]
    /\ rout' = 0
    /\ UNCHANGED <<cacheVars, seriesVars, heapVars>>

NextRolling ==
    \/ RollMax \/ RollMin \/ RollMean \/ RollMedian \/ RollStdDev
    \/ RollMeanByWeights \/ RollResult

SpecRolling == InitRolling /\ [][NextRolling]_vars

(***************************************************************************)
(* Claims on the rolling window engine                                     *)
(***************************************************************************)
Rolled == rview.agg # ""

\* the source positions (0-based) of the window that ends at position i
WindowPositions(i) == {j \in 0..i : j > i - rview.window}

\* the rule that makes position i missing: fewer than minPeriods positions
\* in the window, or a missing element among them
WindowRule(i) ==
    \/ Cardinality(WindowPositions(i)) < rview.minPeriods
    \/ \E j \in WindowPositions(i) : ElemIsNA(rsrc.elements.e[j + 1])

\* the window's values, as a series of the source's type
WindowSeries(i) ==
    LET P  == WindowPositions(i)
        lo == CHOOSE j \in P : \A k \in P : j <= k
    IN  MkSeries(rsrc.name, rsrc.t,
                 [k \in 1..Cardinality(P) |-> rsrc.elements.e[lo + k]], Nil)

\* x is the aggregate rview.agg of the window at position i
IsAggregate(x, i) ==
    LET P    == WindowPositions(i)
        es   == rsrc.elements.e
        win  == WindowSeries(i)
    IN  CASE rview.agg = "Max" ->
                /\ ~ElemIsNA(x)
                /\ \E j \in P : es[j + 1] = x
                /\ \A j \in P : es[j + 1].e <= x.e
          [] rview.agg = "Min" ->
                /\ ~ElemIsNA(x)
                /\ \E j \in P : es[j + 1] = x
                /\ \A j \in P : es[j + 1].e >= x.e
          [] rview.agg = "Mean" ->
                /\ ~ElemIsNA(x)
                /\ x.e.den = Cardinality(P)
                /\ x.e.num = SumSeq([k \in 1..SeriesLen(win) |-> win.elements.e[k].e])
          [] rview.agg = "Median" -> x = ElemSetFloat(FloatType, Median(win))
          [] rview.agg = "StdDev" ->
                IF StdDev(win).nan THEN ElemIsNA(x)
                ELSE ~ElemIsNA(x) /\ x.e.of = StdDev(win).of
          [] OTHER -> TRUE

\* the results the rolling tests expect
AgreesWithTests ==
    LET out == rout.elements.e
        on(src, window, minPeriods, agg) ==
            /\ rsrc.elements.e = src /\ rsrc.t # StringType
            /\ rview.window = window /\ rview.minPeriods = minPeriods
            /\ rview.agg = agg
        nans == [i \in 1..Len(out) |-> ElemIsNA(out[i])]
    IN  /\ on(TestFloats.elements.e, 3, 2, "Max") => out = TestFloatsMax
        /\ on(TestFloatsMax, 3, 2, "Max") => out = TestFloatsMaxRolling
        /\ on(TestFloats.elements.e, 3, 2, "Min") => out = TestFloatsMin
        /\ on(TestFloatsMin, 3, 2, "Min") => out = TestFloatsMinRolling
        /\ on(TestFloats.elements.e, 3, 2, "Median") => out = TestFloatsMedian
        /\ on(TestFloats.elements.e, 3, 2, "StdDev") => nans = TestFloatsStdDevNaN
        /\ on(TestInts.elements.e, 3, 1, "Max") => out = TestIntsMax
        /\ on(TestIntsMax, 3, 1, "Max") => out = TestIntsMax
        /\ on(TestInts.elements.e, 3, 1, "Min") => out = TestIntsMin
        /\ on(TestIntsMin, 3, 1, "Min") => out = TestIntsMin
        /\ (on(TestInts.elements.e, 3, 1, "Median") /\ rsrc.t = IntType)
               => out = TestIntsMedian
        /\ (on(TestInts.elements.e, 3, 1, "StdDev") /\ rsrc.t = IntType)
               => nans = TestIntsStdDevNaN
        /\ (on(TestBools.elements.e, 2, 1, "Max") /\ rsrc.t = BoolType)
               => out = TestBoolsMax
        /\ (on(TestBoolsMax, 2, 1, "Max") /\ rsrc.t = BoolType)
               => out = TestBoolsMaxRolling
        /\ (on(TestBools.elements.e, 2, 1, "Min") /\ rsrc.t = BoolType)
               => out = TestBoolsMin
        /\ (on(TestBools.elements.e, 2, 1, "Median") /\ rsrc.t = BoolType)
               => out = TestBoolsMedian
        /\ (on(TestBools.elements.e, 2, 1, "StdDev") /\ rsrc.t = BoolType)
               => nans = TestBoolsStdDevNaN

\* the aggregates whose value is defined on every window without a missing
\* element
TotalAggregates == {"Max", "Min", "Mean"}

\* C5 as stated: every rolling aggregate returns a series of the source's
\* length whose position i is missing exactly when the window at i holds
\* fewer than minPeriods positions or contains a missing element, and is
\* otherwise the aggregate of the window's values.
C5_MissingIffWindowRule ==
    Rolled =>
        /\ SeriesLen(rout) = SeriesLen(rsrc)
        /\ \A i \in 0..(SeriesLen(rsrc) - 1) :
              LET x == rout.elements.e[i + 1]
              IN  /\ ElemIsNA(x) <=> WindowRule(i)
                  /\ ~WindowRule(i) => IsAggregate(x, i)

\* C5 amended: every rolling aggregate returns a series of the source's
\* length; position i is missing when the window at i holds fewer than
\* minPeriods positions or contains a missing element, and is otherwise the
\* aggregate of exactly the window's values, which is itself missing where
\* the reduction has no value (StdDev of one value, Median of Bool values);
\* for Max, Min and Mean the position is missing only under the window
\* rule.  The same holds for a view of a rolled series, and the results are
\* those the rolling tests expect.
C5_RollingWindowRule ==
    Rolled =>
        /\ SeriesLen(rout) = SeriesLen(rsrc)
        /\ \A i \in 0..(SeriesLen(rsrc) - 1) :
              LET x == rout.elements.e[i + 1]
              IN  /\ WindowRule(i) => ElemIsNA(x)
                  /\ ~WindowRule(i) => IsAggregate(x, i)
                  /\ rview.agg \in TotalAggregates
                        => (ElemIsNA(x) => WindowRule(i))
        /\ AgreesWithTests

\* a second pass over the rolled Max of the test floats: position 2 is
\* missing although its window holds 3 >= 2 positions, because the inner
\* pass left position 0 missing
C5_Witness ==
    /\ rview.pass = 2 /\ rview.agg = "Max"
    /\ rview.window = 3 /\ rview.minPeriods = 2
    /\ rsrc.elements.e = TestFloatsMax
    /\ Cardinality(WindowPositions(2)) = 3
    /\ ElemIsNA(rout.elements.e[3])
    /\ ~ElemIsNA(rout.elements.e[4])

\* the weight MeanByWeights pairs with source position j in the window that
\* ends at position i: the last weight goes with position i
WeightAt(i, j) == rview.weights[Len(rview.weights) - (i - j)]

\* the weighted sum of the window's values and the sum of the weights used
WeightedNum(i) ==
    SumSeq([k \in 1..(i + 1) |->
               IF (k - 1) \in WindowPositions(i)
               THEN rsrc.elements.e[k].e * WeightAt(i, k - 1) ELSE 0])
WeightedDen(i) ==
    SumSeq([k \in 1..(i + 1) |->
               IF (k - 1) \in WindowPositions(i) THEN WeightAt(i, k - 1) ELSE 0])

\* the results the MeanByWeights test expects
WeightsAgreeWithTests ==
    LET out == rout.elements.e
        on(src, minPeriods) ==
            /\ rsrc = src /\ rview.weights = TestWeights
            /\ rview.minPeriods = minPeriods
    IN  /\ on(TestFloats, 2) =>
              \A i \in 1..Len(out) : MeanEquals(out[i], TestFloatsMeanByWeights[i])
        /\ on(TestFloats2, 1) =>
              \A i \in 1..Len(out) : MeanEquals(out[i], TestFloats2MeanByWeights[i])

\* C6 as stated: MeanByWeights(weights) at position i is missing whenever the
\* window at i holds fewer than len(weights) values.
C6_MissingBelowWeightCount ==
    (Rolled /\ rview.agg = "MeanByWeights") =>
        \A i \in 0..(SeriesLen(rsrc) - 1) :
            Cardinality(WindowPositions(i)) < Len(rview.weights)
                => ElemIsNA(rout.elements.e[i + 1])

\* C6 amended: for weights as long as the window, MeanByWeights(weights) at
\* position i is missing exactly when the window at i holds fewer than
\* minPeriods positions or contains a missing element; otherwise it is the
\* sum of the window's values, each times its weight, over the sum of the
\* weights used, where the window's values are paired in order with the
\* last weights (a window of count values uses the last count weights).
\* The results are those the MeanByWeights test expects.
C6_MeanByWeightsRule ==
    (Rolled /\ rview.agg = "MeanByWeights") =>
        /\ SeriesLen(rout) = SeriesLen(rsrc)
        /\ \A i \in 0..(SeriesLen(rsrc) - 1) :
              LET x == rout.elements.e[i + 1]
              IN  /\ ElemIsNA(x) <=> WindowRule(i)
                  /\ ~WindowRule(i) =>
                        /\ x.e.num = WeightedNum(i)
                        /\ x.e.den = WeightedDen(i)
        /\ WeightsAgreeWithTests

\* Floats 23, 13, 101, -64, -3 with window 3, minPeriods 1 and weights
\* 5, 3, 2: positions 0 and 1 hold fewer than 3 values and are 23 and 19
C6_Witness ==
    /\ rview.agg = "MeanByWeights" /\ rview.weights = TestWeights
    /\ rview.minPeriods = 1 /\ rsrc = TestFloats2
    /\ MeanEquals(rout.elements.e[1], Expect(23000000, 1))
    /\ MeanEquals(rout.elements.e[2], Expect(19000000, 1))
    /\ rout.elements.e[2].e.den = 5

(***************************************************************************)
(* SpecIndex: one call of parseIndexes, Subset or Set on a series, with    *)
(* the call and the receiver before it kept in op.                         *)
(***************************************************************************)
\* a poisoned series that holds a missing element
PoisonedWithNaN == MkSeries(<<>>, IntType, <<NaE>>, SomeError)

IndexArgs == IndexSpecs \cup {[shape |-> "series", s |-> PoisonedWithNaN]}

\* the series given to Set as new values
SetValues ==
    { Ints(<<>>), Ints(<<2>>), Ints(<<2, 3>>),
      MkSeries(<<>>, IntType, <<NaE>>, Nil), Err(SomeError) }

InitIndex ==
    /\ recv \in FreshSeries
    /\ ret = 0
    /\ op = NoOp
    /\ panicked = FALSE
    /\ IdleCache /\ IdleRolling /\ IdleStorage

\* the one call of a behaviour: it panics, or leaves the receiver as newRecv
\* and returns newRet
Applied(call, panics, newRecv, newRet) ==
    /\ op = NoOp
    /\ op' = call
    /\ IF panics
       THEN panicked' = TRUE /\ UNCHANGED <<recv, ret>>
       ELSE panicked' = FALSE /\ recv' = newRecv /\ ret' = newRet
    /\ UNCHANGED <<cacheVars, rollVars, heapVars>>

ApplyParseIndexes ==
    \E indexes \in IndexArgs :
        /\ ~recv.elements.nil
        /\ Applied([name |-> "parseIndexes", l |-> SeriesLen(recv), indexes |-> indexes,
                    before |-> recv],
                   FALSE, recv, parseIndexes(SeriesLen(recv), indexes))

ApplySubset ==
    \E indexes \in IndexArgs :
        Applied([name |-> "Subset", indexes |-> indexes, before |-> recv],
                SubsetPanics(recv, indexes), recv, Subset(recv, indexes))

ApplySet ==
    \E indexes \in IndexArgs, newvalues \in SetValues :
        LET after == Set(recv, indexes, newvalues)
        IN  Applied([name |-> "Set", indexes |-> indexes, newvalues |-> newvalues,
                     before |-> recv],
                    SetPanics(recv, indexes, newvalues), after, after)

NextIndex == ApplyParseIndexes \/ ApplySubset \/ ApplySet

SpecIndex == InitIndex /\ [][NextIndex]_vars

(***************************************************************************)
(* Claims on Set, Subset and parseIndexes                                  *)
(***************************************************************************)
\* the positions the call's indexes resolve to on the receiver before it
Resolved == parseIndexes(SeriesLen(op.before), op.indexes)

OutOfRange(i, s) == i < 0 \/ i >= SeriesLen(s)

Largest(S) == CHOOSE k \in S : \A j \in S : j <= k
Smallest(S) == CHOOSE k \in S : \A j \in S : k <= j

\* C11: Set(indexes, values) on a valid receiver.  If values is poisoned,
\* the indexes cannot be resolved or their number differs from
\* values.Len(), the receiver becomes poisoned and no element changes.  If
\* the k-th resolved position is out of range the receiver becomes poisoned
\* and exactly the writes before k remain.  Otherwise the writes
\* element idx[k] := values[k] are all applied, in the order of k, and the
\* length is unchanged.
C11_SetContract ==
    (op.name = "Set" /\ ~Poisoned(op.before) /\ ~panicked) =>
        LET s == op.before
            v == op.newvalues
        IN  /\ ret = recv
            /\ IF Poisoned(v) \/ Resolved.err # Nil \/ Len(Resolved.idx) # SeriesLen(v)
               THEN Poisoned(recv) /\ recv.elements = s.elements
               ELSE LET idx  == Resolved.idx
                        bad  == {k \in 1..Len(idx) : OutOfRange(idx[k], s)}
                        stop == IF bad = {} THEN Len(idx) + 1 ELSE Smallest(bad)
                        written(q) == {k \in 1..(stop - 1) : idx[k] = q}
                    IN  /\ Poisoned(recv) <=> bad # {}
                        /\ SeriesLen(recv) = SeriesLen(s)
                        /\ \A q \in 0..(SeriesLen(s) - 1) :
                              recv.elements.e[q + 1] =
                                  IF written(q) = {} THEN s.elements.e[q + 1]
                                  ELSE v.elements.e[Largest(written(q))]

\* a Set that wrote position 0 and then met a position out of range
C11_Witness ==
    /\ op.name = "Set" /\ ~Poisoned(op.before) /\ ~panicked
    /\ SeriesLen(op.before) >= 1
    /\ Resolved.err = Nil /\ Len(Resolved.idx) = 2
    /\ Resolved.idx[1] = 0 /\ OutOfRange(Resolved.idx[2], op.before)
    /\ Poisoned(recv)
    /\ recv.elements.e[1] = E(2) /\ op.before.elements.e[1] # E(2)

\* C12: a resolved position outside [0, Len()) is a reported error: Subset
\* and Set given such a position return a poisoned series and do not panic.
C12_OutOfRangeReported ==
    ( /\ op.name \in {"Subset", "Set"}
      /\ ~Poisoned(op.before)
      /\ Resolved.err = Nil
      /\ \E k \in 1..Len(Resolved.idx) : OutOfRange(Resolved.idx[k], op.before) )
        => (~panicked /\ Poisoned(ret))

\* idx lists, ascending, the positions (0-based) of the true entries of bools
IsMaskPositions(idx, bools) ==
    /\ \A k \in 1..(Len(idx) - 1) : idx[k] < idx[k + 1]
    /\ {idx[k] : k \in 1..Len(idx)} = {i \in 0..(Len(bools) - 1) : bools[i + 1]}

\* C13: parseIndexes(l, spec): an int yields [i]; an int list is returned as
\* given; a mask of length l yields the ascending positions of its true
\* entries; an Int or Bool series is resolved like the list or mask of its
\* values.  A mask of another length, an unsupported shape, a poisoned
\* series and a series with missing values yield four different errors,
\* and a poisoned series yields its error whatever its elements are.
C13_ParseIndexes ==
    (op.name = "parseIndexes") =>
        LET x == op.indexes
            mask(bools) ==
                IF Len(bools) # op.l THEN ret.err = ErrDimMismatch
                ELSE ret.err = Nil /\ IsMaskPositions(ret.idx, bools)
        IN  /\ recv = op.before
            /\ Cardinality({ErrDimMismatch, ErrUnknownMode, ErrArgHasErrors,
                            ErrContainNaN, Nil}) = 5
            /\ CASE x.shape = "int"   -> ret = [idx |-> <<x.i>>, err |-> Nil]
                 [] x.shape = "ints"  -> ret = [idx |-> x.idx, err |-> Nil]
                 [] x.shape = "bools" -> mask(x.bools)
                 [] x.shape = "series" ->
                       LET es == x.s.elements.e IN
                       IF Poisoned(x.s) THEN ret.err = ErrArgHasErrors
                       ELSE IF \E i \in 1..Len(es) : es[i].nan
                            THEN ret.err = ErrContainNaN
                       ELSE IF x.s.t = IntType
                            THEN ret = [idx |-> [i \in 1..Len(es) |-> es[i].e], err |-> Nil]
                       ELSE IF x.s.t = BoolType
                            THEN mask([i \in 1..Len(es) |-> es[i].e = 1])
                       ELSE ret.err # Nil
                 [] OTHER -> ret.err = ErrUnknownMode

\* a poisoned series holding a missing element was given as indexes
C13_Witness ==
    /\ op.name = "parseIndexes" /\ op.indexes.shape = "series"
    /\ Poisoned(op.indexes.s) /\ HasNaN(op.indexes.s)
    /\ ret.err = ErrArgHasErrors

(***************************************************************************)
(* SpecStorage: the storage of the elements.  intElements is a Go slice: a *)
(* header (backing array, offset, length) whose capacity runs to the end   *)
(* of the array.  heap holds the backing arrays; a series of this          *)
(* specification carries a header in its elements field.  Operations that  *)
(* build their result with make or Copy allocate a new array, Slice        *)
(* returns a header into the array of its receiver, and `return &s` on a   *)
(* value receiver returns a series with the receiver's own header.         *)
(***************************************************************************)
MaxSpare == 1       \* most unused slots append leaves behind a grown array
MaxStorageOps == 2  \* operations of one SpecStorage behaviour, the derivation included

Header(arr, off, len) == [nil |-> FALSE, arr |-> arr, off |-> off, len |-> len]

\* cap(e) of a slice header
Cap(h, x) == Len(h[x.arr]) - x.off

\* the elements a header shows
Contents(h, x) == [i \in 1..x.len |-> h[x.arr][x.off + i]]

\* the series as the value operators above see it
View(h, s) == MkSeries(s.name, s.t, Contents(h, s.elements), s.err)

\* make(intElements, n) followed by the writes of es, with spare unused slots
ZeroSlots(n) == [i \in 1..n |-> E(0)]
Alloc(h, s, es, spare) ==
    [heap |-> Append(h, es \o ZeroSlots(spare)),
     s    |-> [name |-> s.name, t |-> s.t, err |-> s.err,
               elements |-> Header(Len(h) + 1, 0, Len(es))]]

\* a result that keeps the header of the receiver: `return &s`
Shared(h, s, r) ==
    [heap |-> h,
     s    |-> [name |-> r.name, t |-> r.t, err |-> r.err, elements |-> s.elements]]

\* writes through Elem(i) pointers: the slots the header shows take es
WriteBack(h, x, es) ==
    [h EXCEPT ![x.arr] =
        [j \in 1..Len(h[x.arr]) |->
            IF j > x.off /\ j <= x.off + x.len THEN es[j - x.off] ELSE h[x.arr][j]]]

\* series.Slice: the result shares the array of the receiver (e[start:end])
StorageSlice(h, s, start, end) ==
    LET r == Slice(View(h, s), start, end)
    IN  IF s.err # Nil THEN Shared(h, s, r)
        ELSE IF r.err # Nil THEN Alloc(h, r, <<>>, 0)
        ELSE [heap |-> h,
              s    |-> [name |-> r.name, t |-> r.t, err |-> Nil,
                        elements |-> Header(s.elements.arr, s.elements.off + start,
                                            end - start)]]

\* series.Subset: elements.Get makes a new array; the error paths return &s
StorageSubset(h, s, indexes) ==
    LET r == Subset(View(h, s), indexes)
    IN  IF r.err # Nil THEN Shared(h, s, r)
        ELSE Alloc(h, r, r.elements.e, 0)

\* series.Copy: elements.Copy makes a new array of the same length
StorageCopy(h, s) == Alloc(h, s, Contents(h, s.elements), 0)

\* append(e, eles...): in place while the capacity allows, else a grown copy
StorageAppendElements(h, s, eles, spare) ==
    LET x == s.elements
    IN  IF x.len + Len(eles) <= Cap(h, x)
        THEN [heap |-> [h EXCEPT ![x.arr] =
                           [j \in 1..Len(h[x.arr]) |->
                               IF j > x.off + x.len /\ j <= x.off + x.len + Len(eles)
                               THEN eles[j - x.off - x.len] ELSE h[x.arr][j]]],
              s    |-> [s EXCEPT !.elements.len = x.len + Len(eles)]]
        ELSE Alloc(h, s, Contents(h, x) \o eles, spare)

\* series.Append
StorageAppend(h, s, values, spare) ==
    IF s.err # Nil THEN [heap |-> h, s |-> s]
    ELSE StorageAppendElements(h, s, newSeries(values, s.t, s.name).elements.e, spare)

\* series.Concat: y := s.Copy(); y.Append(x); the error paths return &s
StorageConcat(h, s, x, spare) ==
    LET r == Concat(View(h, s), x)
    IN  IF r.err # Nil THEN Shared(h, s, r)
        ELSE LET y == StorageCopy(h, s)
             IN  StorageAppend(y.heap, y.s, [kind |-> "series", s |-> x], spare)

\* series.Shift: Empty(), Copy(), or an append onto a copy or onto the new
\* missing elements, each a new array
StorageShift(h, s, periods, spare) ==
    LET r == Shift(View(h, s), periods)
    IN  Alloc(h, r, r.elements.e,
              IF s.elements.len = 0 \/ periods = 0 THEN 0 ELSE spare)

\* series.Set: the writes go through Elem(i) into the array
StorageSet(h, s, indexes, newvalues) ==
    LET r == Set(View(h, s), indexes, newvalues)
    IN  [heap |-> WriteBack(h, s.elements, r.elements.e), s |-> [s EXCEPT !.err = r.err]]

\* series.FillNaN, FillNaNForward, FillNaNBackward: writes through Elem(i)
StorageFillNaN(h, s, value) ==
    [heap |-> WriteBack(h, s.elements, FillNaN(View(h, s), value).elements.e), s |-> s]
StorageFillNaNForward(h, s) ==
    [heap |-> WriteBack(h, s.elements, FillNaNForward(View(h, s)).elements.e), s |-> s]
StorageFillNaNBackward(h, s) ==
    [heap |-> WriteBack(h, s.elements, FillNaNBackward(View(h, s)).elements.e), s |-> s]

\* the source series of a behaviour: series.Ints(...) on an array of its own
StorageSources == SeqsUpTo(IntElems, MaxLen)
AppendValues == {<<2>>}
WriteValues  == {Ints(<<2>>)}
Spares       == 0..MaxSpare

InitStorage ==
    /\ \E es \in StorageSources :
          /\ heap = <<es>>
          /\ hsrc = [name |-> <<>>, t |-> IntType, err |-> Nil,
                     elements |-> Header(1, 0, Len(es))]
    /\ hder = NoDerived
    /\ hop = NoStorageOp
    /\ IdleCache /\ IdleSeries /\ IdleRolling

\* t is obtained from s by one of the deriving operations
Derived(name, st) ==
    /\ hder = NoDerived
    /\ hop.n < MaxStorageOps
    /\ heap' = st.heap
    /\ hder' = st.s
    /\ hop' = [name |-> name, target |-> "s", n |-> hop.n + 1]
    /\ UNCHANGED <<hsrc, cacheVars, seriesVars, rollVars>>

DeriveSlice ==
    \E start \in 0..MaxLen, end \in 0..MaxLen :
        Derived("Slice", StorageSlice(heap, hsrc, start, end))
DeriveSubset ==
    \E indexes \in {x \in IndexSpecs : x.shape \in {"int", "bools"}} :
        /\ ~SubsetPanics(View(heap, hsrc), indexes)
        /\ Derived("Subset", StorageSubset(heap, hsrc, indexes))
DeriveCopy == Derived("Copy", StorageCopy(heap, hsrc))
DeriveConcat ==
    \E x \in {Ints(<<>>), Ints(<<1>>), Err(SomeError)}, spare \in Spares :
        Derived("Concat", StorageConcat(heap, hsrc, x, spare))
DeriveShift ==
    \E periods \in -1..1, spare \in Spares :
        Derived("Shift", StorageShift(heap, hsrc, periods, spare))

\* the in-place operations, applied to s ("s") or to t ("t")
Target(which) == IF which = "s" THEN hsrc ELSE hder
Mutated(name, which, st) ==
    /\ hop.n < MaxStorageOps
    /\ which = "t" => hder # NoDerived
    /\ heap' = st.heap
    /\ IF which = "s" THEN hsrc' = st.s /\ UNCHANGED hder
                      ELSE hder' = st.s /\ UNCHANGED hsrc
    /\ hop' = [name |-> name, target |-> which, n |-> hop.n + 1]
    /\ UNCHANGED <<cacheVars, seriesVars, rollVars>>

MutateSet ==
    \E which \in {"s", "t"}, i \in 0..MaxLen, newvalues \in WriteValues :
        /\ which = "t" => hder # NoDerived
        /\ Mutated("Set", which,
                   StorageSet(heap, Target(which), [shape |-> "int", i |-> i], newvalues))
MutateFillNaN ==
    \E which \in {"s", "t"} :
        /\ which = "t" => hder # NoDerived
        /\ Mutated("FillNaN", which, StorageFillNaN(heap, Target(which), 2))
MutateFillNaNForward ==
    \E which \in {"s", "t"} :
        /\ which = "t" => hder # NoDerived
        /\ Mutated("FillNaNForward", which, StorageFillNaNForward(heap, Target(which)))
MutateFillNaNBackward ==
    \E which \in {"s", "t"} :
        /\ which = "t" => hder # NoDerived
        /\ Mutated("FillNaNBackward", which, StorageFillNaNBackward(heap, Target(which)))
MutateAppend ==
    \E which \in {"s", "t"}, v \in AppendValues, spare \in Spares :
        /\ which = "t" => hder # NoDerived
        /\ Target(which).elements.len + Len(v) <= MaxLen + 1
        /\ Mutated("Append", which,
                   StorageAppend(heap, Target(which), [kind |-> "ints", v |-> v], spare))

NextStorage ==
    \/ DeriveSlice \/ DeriveSubset \/ DeriveCopy \/ DeriveConcat \/ DeriveShift
    \/ MutateSet \/ MutateFillNaN \/ MutateFillNaNForward \/ MutateFillNaNBackward
    \/ MutateAppend

SpecStorage == InitStorage /\ [][NextStorage]_vars

\* a step that applied an in-place operation to the series named which
MutationOf(which) ==
    /\ hop'.n = hop.n + 1
    /\ hop'.target = which
    /\ hop'.name \in {"Set", "FillNaN", "FillNaNForward", "FillNaNBackward", "Append"}
    /\ hder # NoDerived

\* C14: a derived series never shares mutable storage with its source.  Once
\* t was obtained from s by Slice, Subset, Copy, Concat or Shift, every Set,
\* FillNaN, FillNaNForward, FillNaNBackward or Append applied to t leaves
\* every element and the length of s as they were, and every such operation
\* applied to s leaves every element and the length of t as they were.
C14_NoSharedStorage ==
    [][ /\ MutationOf("t") => Contents(heap', hsrc'.elements) = Contents(heap, hsrc.elements)
        /\ MutationOf("s") => Contents(heap', hder'.elements) = Contents(heap, hder.elements)
      ]_vars

(***************************************************************************)
(* SpecReduce: Order and the reductions of a series, each a pure function  *)
(* of the receiver: a behaviour draws a series and applies one of them.    *)
(***************************************************************************)
ReduceLen == 3      \* longest series a reduction is applied to

ReduceValues == {0, 1, 2}
ReduceElems(t) ==
    {E(IF t = FloatType THEN v * Scale ELSE v) : v \in ReduceValues} \cup {NaE}
ReduceSources ==
    UNION {{MkSeries(<<>>, t, es, Nil) : es \in SeqsUpTo(ReduceElems(t), ReduceLen)} :
           t \in {IntType, FloatType}}

\* the float64 arguments of DataQuantile: -0.5, 0, 0.5, ... 2.5
DataArgs == {F(h * (Scale \div 2)) : h \in -1..5}

InitReduce ==
    /\ recv \in ReduceSources
    /\ ret = 0
    /\ op = NoOp
    /\ panicked = FALSE
    /\ IdleCache /\ IdleRolling /\ IdleStorage

ReduceOrder ==
    \E reverse \in BOOLEAN :
        Applied([name |-> "Order", reverse |-> reverse, before |-> recv],
                FALSE, recv, Order(recv, reverse))
ReduceMedian ==
    Applied([name |-> "Median", before |-> recv], FALSE, recv, Median(recv))
ReduceMax ==
    Applied([name |-> "Max", before |-> recv], FALSE, recv, Max(recv))
ReduceMin ==
    Applied([name |-> "Min", before |-> recv], FALSE, recv, Min(recv))
ReduceDataQuantile ==
    \E data \in DataArgs :
        Applied([name |-> "DataQuantile", data |-> data, before |-> recv],
                FALSE, recv, DataQuantile(recv, data))

NextReduce ==
    ReduceOrder \/ ReduceMedian \/ ReduceMax \/ ReduceMin \/ ReduceDataQuantile

SpecReduce == InitReduce /\ [][NextReduce]_vars

\* the elements of the receiver of the reduction, and which are not missing
Before        == op.before.elements.e
Present       == {i \in 1..Len(Before) : ~ElemIsNA(Before[i])}
IsPermutation(o, n) == Len(o) = n /\ {o[k] : k \in 1..Len(o)} = 0..(n - 1)

\* the missing positions come last, in their original order
MissingLast(o) ==
    LET m == Cardinality(Present)
    IN  /\ \A k \in 1..Len(o) : ElemIsNA(Before[o[k] + 1]) <=> k > m
        /\ \A j, k \in (m + 1)..Len(o) : j < k => o[j] < o[k]

\* C15: Order(false) returns a permutation of the positions 0..Len()-1: the
\* positions of the elements that are not missing first, in ascending order
\* of value and, among equal values, in their original order, then the
\* positions of the missing elements in their original order.  Order(true)
\* also places the missing positions last, in their original order.
C15_OrderContract ==
    op.name = "Order" =>
        /\ IsPermutation(ret, Len(Before))
        /\ MissingLast(ret)
        /\ ~op.reverse =>
              \A j, k \in 1..Cardinality(Present) :
                  j < k => \/ Before[ret[j] + 1].e < Before[ret[k] + 1].e
                           \/ /\ Before[ret[j] + 1].e = Before[ret[k] + 1].e
                              /\ ret[j] < ret[k]

\* Order(false) of a series that starts with a missing element and holds a
\* value twice, after a larger one
C15_Witness ==
    /\ op.name = "Order" /\ ~op.reverse
    /\ Len(Before) = 3
    /\ ElemIsNA(Before[1])
    /\ Before[2] = Before[3] /\ ~ElemIsNA(Before[2])
    /\ ret = <<1, 2, 0>>

\* the first n entries of q in reverse order
ReversedPrefix(q, n) == [k \in 1..n |-> q[n + 1 - k]]

\* C16: on one series, the non-missing prefix of Order(true) is the exact
\* reverse of the non-missing prefix of Order(false), equal values included,
\* and the missing suffix of the two results is identical.
C16_ReverseIsMirror ==
    (op.name = "Order" /\ op.reverse) =>
        LET asc == Order(op.before, FALSE)
            m   == Cardinality(Present)
        IN  /\ SubSeq(ret, 1, m) = ReversedPrefix(asc, m)
            /\ SubSeq(ret, m + 1, Len(ret)) = SubSeq(asc, m + 1, Len(asc))

\* the elements of the receiver that are not missing, as float64, ascending
PresentAscending ==
    LET kept == Filter(op.before, "notNA")
    IN  Float(Subset(kept, [shape |-> "ints", idx |-> Order(kept, FALSE)]))

\* C17: for a non-empty Int or Float series, Median() is computed over the
\* elements that are not missing only: the middle one in ascending order for
\* an odd count, the average of the two middle ones for an even count,
\* whether or not the series holds missing elements.
C17_MedianOverPresent ==
    (op.name = "Median" /\ Len(Before) > 0 /\ Present # {}) =>
        LET x == PresentAscending
            n == Len(x)
        IN  ret = IF n % 2 # 0 THEN x[(n \div 2) + 1]
                  ELSE F((x[n \div 2].v + x[(n \div 2) + 1].v) \div 2)

\* C18: DataQuantile(data) is k/D, where k is the number of non-missing
\* values strictly less than data and D is the number of non-missing values,
\* plus one when that number is odd; this holds for every data, equal to a
\* stored value or at or above the maximum included.
C18_DataQuantileStrictlyLess ==
    (op.name = "DataQuantile" /\ Present # {}) =>
        LET x == PresentAscending
            k == Cardinality({i \in 1..Len(x) : x[i].v < op.data.v})
            D == IF Len(x) % 2 = 1 THEN Len(x) + 1 ELSE Len(x)
        IN  ~ret.nan /\ ret.num * D = k * ret.den

\* C19: Max() and Min() return NaN whenever any element of the series is
\* missing, whatever the position of the missing element.
C19_MaxMinNaNOnMissing ==
    (op.name \in {"Max", "Min"} /\ HasNaN(op.before)) => ret.nan

(***************************************************************************)
(* SpecQuantile: Quantile, Min and Max called on one cache wrapper, in any *)
(* order.                                                                  *)
(***************************************************************************)
\* arguments of Quantile: 0, 0.0000004, 0.9999996, 1
BoundaryArgs == {0, 4, One - 4, One}

BoundaryCalls ==
    {Call("Min", NoArg), Call("Max", NoArg)} \cup {Call("Quantile", q) : q \in BoundaryArgs}

\* the wrapped series: those of SpecCache, an Int series with a missing
\* element in the middle, and a Bool series
BoundaryTargets ==
    CacheTargets \cup { New(<<E(2), NaE, E(1)>>, IntType, <<"x">>),
                        New(<<E(1), E(0)>>, BoolType, <<"x">>) }

InitQuantile ==
    /\ \E s \in BoundaryTargets : wrappers = [w \in {Orig} |-> newCacheAbleSeries(s, 1)]
    /\ caches = <<EmptyCache>>
    /\ execs = EmptyCache
    /\ firstRet = EmptyCache
    /\ last = NoCall
    /\ steps = 0
    /\ IdleSeries /\ IdleRolling /\ IdleStorage

QuantileCall == \E call \in BoundaryCalls : CachedCall(Orig, call)

NextQuantile == QuantileCall

SpecQuantile == InitQuantile /\ [][NextQuantile]_vars

\* what the wrapper w returns for call in the current state
WouldReturn(w, call) ==
    cacheOrExecute(caches[wrappers[w].c], CacheKey(call),
                   Closure(wrappers[w].Series, call, Len(caches) + 1)).ret

\* the calls the boundary rule is about, and the states in which no other
\* call was made on a wrapper
MinMaxCalls ==
    {Call("Min", NoArg), Call("Max", NoArg), Call("Quantile", 0), Call("Quantile", One)}
OnlyMinMaxCalls == \A k \in DOMAIN firstRet : k[2] \in MinMaxCalls

\* C20: for every non-empty series that is not a String series, Quantile(0)
\* equals Min() and Quantile(1) equals Max(), called on the series itself and
\* called through a CacheAble() wrapper, whichever of these four calls were
\* made before and in whatever order.
C20_QuantileBoundary ==
    OnlyMinMaxCalls =>
        \A w \in DOMAIN wrappers :
            LET s == wrappers[w].Series
            IN  /\ Quantile(s, 0) = Min(s)
                /\ Quantile(s, One) = Max(s)
                /\ WouldReturn(w, Call("Quantile", 0)) = WouldReturn(w, Call("Min", NoArg))
                /\ WouldReturn(w, Call("Quantile", One)) = WouldReturn(w, Call("Max", NoArg))
                /\ last.call = Call("Quantile", 0) => last.ret = Min(s)
                /\ last.call = Call("Quantile", One) => last.ret = Max(s)

\* Min() was called on the wrapper of a series with a missing element, then
\* Quantile(0) computed the same value
C20_Witness ==
    /\ OnlyMinMaxCalls
    /\ <<Orig, Call("Min", NoArg)>> \in DOMAIN firstRet
    /\ last.call = Call("Quantile", 0) /\ last.executed
    /\ HasNaN(wrappers[Orig].Series)
    /\ ~last.ret.nan
    /\ last.ret = firstRet[<<Orig, Call("Min", NoArg)>>]

(***************************************************************************)
(* SpecOps: the element-wise operations of a series, each applied once to  *)
(* a drawn receiver; op records the call and its arguments.                *)
(***************************************************************************)
\* the receivers: Int and Float series with or without missing elements,
\* and Bool series
BoolSources ==
    {MkSeries(<<>>, BoolType, es, Nil) : es \in SeqsUpTo({E(0), E(1)}, ReduceLen)}
OpSources == ReduceSources \cup BoolSources \cup {TestLogicSeries}

InitOps ==
    /\ recv \in OpSources
    /\ ret = 0
    /\ op = NoOp
    /\ panicked = FALSE
    /\ IdleCache /\ IdleRolling /\ IdleStorage

ApplyShift ==
    \E periods \in -(ReduceLen + 1)..(ReduceLen + 1) :
        Applied([name |-> "Shift", periods |-> periods, before |-> recv],
                ShiftPanics(recv, periods), recv, Shift(recv, periods))

ApplyFillNaNForward ==
    Applied([name |-> "FillNaNForward", before |-> recv],
            FillPanics(recv), FillNaNForward(recv), 0)
ApplyFillNaNBackward ==
    Applied([name |-> "FillNaNBackward", before |-> recv],
            FillPanics(recv), FillNaNBackward(recv), 0)

\* right-hand sides of Compare: a scalar, lists of every length up to the
\* longest receiver, nil, and series with and without a missing element
Comparandos ==
    {[kind |-> "ints", v |-> q] : q \in SeqsUpTo(IntValues, ReduceLen)}
    \cup {[kind |-> "nil"]}
    \cup {[kind |-> "series", s |-> x] :
             x \in {Ints(<<1>>), MkSeries(<<>>, IntType, <<E(1), NaE>>, Nil)}}

ApplyCompare ==
    \E comparator \in KnownComparators, comparando \in Comparandos :
        Applied([name |-> "Compare", comparator |-> comparator,
                 comparando |-> comparando, before |-> recv],
                ComparePanics(recv, comparator, comparando), recv,
                Compare(recv, comparator, comparando))

\* operands of the binary operations: one Int series of every length, and
\* one with a missing element
ArithOperands ==
    {MkSeries(<<"c">>, IntType, [i \in 1..n |-> E(i % 3)], Nil) : n \in 0..ReduceLen}
    \cup {MkSeries(<<"c">>, IntType, [i \in 1..n |-> IF i = 1 THEN NaE ELSE E(2)], Nil) :
             n \in 1..ReduceLen}

ApplyArith ==
    \E name \in {"Add", "Sub", "Mul", "Div"}, c \in ArithOperands :
        Applied([name |-> name, c |-> c, before |-> recv],
                ArithPanics(recv, c), recv, Arith(name, recv, c))

\* operands of And and Or: scalars and lists given as ints, Bool, Int and
\* Float series, and the operand of TestSeries_Logic
LogicOperands ==
    {[kind |-> "ints", v |-> q] : q \in SeqsUpTo(IntValues, ReduceLen) \ {<<>>}}
    \cup {[kind |-> "series", s |-> x] :
             x \in { Bools(<<TRUE, FALSE>>), Ints(<<0, 1>>),
                     MkSeries(<<>>, FloatType, <<E(Scale), E(0), E(Scale)>>, Nil),
                     Bools(<<TRUE, FALSE, TRUE, FALSE, FALSE>>) }}
    \cup {TestLogicInts}

ApplyLogic ==
    \E name \in {"And", "Or"}, in \in LogicOperands :
        /\ LogicDefined(recv, in)
        /\ Applied([name |-> name, in |-> in, before |-> recv],
                   FALSE, recv, Logic(name, recv, in))

NextOps ==
    \/ ApplyShift \/ ApplyFillNaNForward \/ ApplyFillNaNBackward
    \/ ApplyCompare \/ ApplyArith \/ ApplyLogic

SpecOps == InitOps /\ [][NextOps]_vars

\* C21: for every series s of length n and every integer periods, Shift
\* returns a series of length n and leaves s unchanged: for periods > 0 the
\* positions below periods are missing and position i >= periods holds
\* s[i-periods]; for periods < 0 the last |periods| positions are missing
\* and position i < n-|periods| holds s[i+|periods|]; periods = 0 gives a
\* copy and an empty s an empty series.
C21_ShiftContract ==
    op.name = "Shift" =>
        LET n == Len(Before)
            p == op.periods
        IN  /\ ~panicked
            /\ recv = op.before
            /\ SeriesLen(ret) = n
            /\ \A i \in 0..(n - 1) :
                  ret.elements.e[i + 1] =
                      IF p > 0 THEN (IF i < p THEN NaE ELSE Before[i - p + 1])
                      ELSE IF p < 0 THEN (IF i >= n + p THEN NaE ELSE Before[i - p + 1])
                      ELSE Before[i + 1]

\* the nearest position before i (1-based) holding a non-missing element of
\* es, or 0; and the nearest one after i, or 0
EarlierPresent(es, i) ==
    LET c == {j \in 1..(i - 1) : ~ElemIsNA(es[j])} IN IF c = {} THEN 0 ELSE Largest(c)
LaterPresent(es, i) ==
    LET c == {j \in (i + 1)..Len(es) : ~ElemIsNA(es[j])} IN IF c = {} THEN 0 ELSE Smallest(c)

\* C22: FillNaNForward changes only the missing elements that have a
\* non-missing element before them, setting each to the value of its nearest
\* earlier non-missing element; the missing elements of the leading run stay
\* missing, the non-missing elements and the length are unchanged, and a
\* second FillNaNForward changes nothing.  FillNaNBackward is the mirror
\* image, with the nearest later non-missing element and the trailing run.
C22_FillNaNDirectional ==
    op.name \in {"FillNaNForward", "FillNaNBackward"} =>
        LET after == recv.elements.e
            fwd   == op.name = "FillNaNForward"
        IN  /\ ~panicked
            /\ Len(after) = Len(Before)
            /\ recv.name = op.before.name /\ recv.t = op.before.t /\ recv.err = op.before.err
            /\ \A i \in 1..Len(Before) :
                  LET src == IF fwd THEN EarlierPresent(Before, i) ELSE LaterPresent(Before, i)
                  IN  after[i] = IF ElemIsNA(Before[i]) /\ src # 0 THEN Before[src]
                                 ELSE Before[i]
            /\ (IF fwd THEN FillNaNForward(recv) ELSE FillNaNBackward(recv)) = recv

\* a forward fill that left the leading missing element and filled the
\* trailing one from the element before it
C22_Witness ==
    /\ op.name = "FillNaNForward"
    /\ Len(Before) = 3
    /\ ElemIsNA(Before[1]) /\ ~ElemIsNA(Before[2]) /\ ElemIsNA(Before[3])
    /\ recv.elements.e = <<NaE, Before[2], Before[2]>>

\* C23: for the comparators ==, !=, <, <=, >, >= on a valid receiver,
\* Compare returns a valid Bool series of the receiver's length when the
\* coerced right-hand side has length 1 (broadcast to every element) or the
\* receiver's length (element i compared with element i); for any other
\* right-hand length it returns a poisoned series; the receiver's elements
\* and error slot are unchanged in every case.
C23_CompareShapes ==
    (op.name = "Compare" /\ op.comparator \in KnownComparators) =>
        LET comp == newSeries(op.comparando, op.before.t, <<>>).elements.e
            n    == Len(Before)
            rhs(i) == IF Len(comp) = 1 THEN comp[1] ELSE comp[i]
        IN  /\ ~panicked
            /\ recv = op.before
            /\ IF Len(comp) = 1 \/ Len(comp) = n
               THEN /\ ~Poisoned(ret)
                    /\ Type(ret) = BoolType
                    /\ SeriesLen(ret) = n
                    /\ \A i \in 1..n :
                          ret.elements.e[i] =
                              E(IF compareElements(Before[i], rhs(i), op.comparator).ret
                                THEN 1 ELSE 0)
               ELSE Poisoned(ret)

\* a scalar broadcast over a receiver of three elements, true somewhere and
\* false elsewhere
C23_Witness ==
    /\ op.name = "Compare" /\ op.comparator = Less
    /\ op.comparando = [kind |-> "ints", v |-> <<1>>]
    /\ Len(Before) = 3
    /\ ~Poisoned(ret)
    /\ ret.elements.e = <<E(1), E(0), E(0)>>

\* C24: equal length is enforced by the binary arithmetic operations
\* themselves: Add, Sub, Mul and Div called with an operand whose length
\* differs from the receiver's return a poisoned series; they neither panic
\* nor return a valid result.  With equal lengths the result is a Float
\* series of that length.
C24_ArithDimensions ==
    op.name \in {"Add", "Sub", "Mul", "Div"} =>
        /\ ~panicked
        /\ IF SeriesLen(op.c) # Len(Before) THEN Poisoned(ret)
           ELSE /\ ~Poisoned(ret)
                /\ Type(ret) = FloatType
                /\ SeriesLen(ret) = Len(Before)

\* the operand of And and Or at position i (1-based) as a boolean, read off
\* the operand as it was given; an operand of one element stands for every
\* position
OperandTruth(in, i) ==
    LET k == IF in.kind = "ints" THEN (IF Len(in.v) = 1 THEN 1 ELSE i)
             ELSE (IF SeriesLen(in.s) = 1 THEN 1 ELSE i)
    IN  IF in.kind = "ints" THEN in.v[k] = 1
        ELSE in.s.elements.e[k].e = (IF in.s.t = FloatType THEN Scale ELSE 1)

\* C25: for a Bool series s and an operand x coercible to Bool (a scalar, or
\* a list or series of s's length), s.And(x) is the element-wise conjunction
\* and s.Or(x) the element-wise disjunction of s with x, a scalar being
\* broadcast to every position; the result has the length of s and s is
\* unchanged.  The results of TestSeries_Logic are those of the test.
C25_LogicElementWise ==
    /\ Logic("And", TestLogicSeries, TestLogicInts) = TestLogicAnd
    /\ Logic("Or", TestLogicSeries, TestLogicInts) = TestLogicOr
    /\ op.name \in {"And", "Or"} =>
          /\ ~panicked
          /\ recv = op.before
          /\ Type(ret) = BoolType /\ ~Poisoned(ret)
          /\ SeriesLen(ret) = Len(Before)
          /\ \A i \in 1..Len(Before) :
                ret.elements.e[i].e = 1 <=>
                    IF op.name = "And" THEN Before[i].e = 1 /\ OperandTruth(op.in, i)
                    ELSE Before[i].e = 1 \/ OperandTruth(op.in, i)

\* the call of TestSeries_Logic with the operand given as ints
C25_Witness ==
    /\ op.name = "Or"
    /\ op.before = TestLogicSeries /\ op.in = TestLogicInts
    /\ ret = TestLogicOr

(***************************************************************************)
(* SpecViews: rolling views of a cache-wrapped series.  wrappers holds the *)
(* wrapped series under Orig and each view made by Rolling under a name of *)
(* ViewNames; execs counts the computations of each aggregate per window   *)
(* and minPeriods.                                                         *)
(***************************************************************************)
MaxViewCalls == 4   \* calls made on the wrapper and its views in one behaviour

ViewNames == <<"rs1", "rs2">>
ViewAggs  == {"Max", "Min"}
ViewTargets == CacheTargets \cup {TestInts}

\* cacheAbleSeries.Rolling: a view over the wrapped series with a Cache of
\* its own
CacheAbleRolling(cs, window, minPeriods, newRef) ==
    [RollingSeries |-> NewRollingSeries(window, minPeriods, cs.Series),
     c |-> newRef]

\* the aggregate a view computes on a miss, wrapped as a cache-able series
\* with the Cache newRef
ViewClosure(view, agg, newRef) ==
    [ret |-> [Series |-> IF agg = "Max" THEN RollingMax(view.RollingSeries)
                         ELSE RollingMin(view.RollingSeries),
              c |-> newRef],
     err |-> Nil]

InitViews ==
    /\ \E s \in ViewTargets : wrappers = [w \in {Orig} |-> newCacheAbleSeries(s, 1)]
    /\ caches = <<EmptyCache>>
    /\ execs = EmptyCache
    /\ firstRet = EmptyCache
    /\ last = NoCall
    /\ steps = 0
    /\ IdleSeries /\ IdleRolling /\ IdleStorage

Views == {ViewNames[k] : k \in 1..Len(ViewNames)} \cap DOMAIN wrappers

\* cs.Rolling(window, minPeriods): the next view
RollingCall ==
    /\ steps < MaxViewCalls
    /\ Cardinality(Views) < Len(ViewNames)
    /\ \E window \in 1..MaxWindow : \E minPeriods \in 0..window :
         LET v      == ViewNames[Cardinality(Views) + 1]
             newRef == Len(caches) + 1
             view   == CacheAbleRolling(wrappers[Orig], window, minPeriods, newRef)
         IN  /\ wrappers' = [w \in DOMAIN wrappers \cup {v} |->
                                IF w = v THEN view ELSE wrappers[w]]
             /\ caches' = Append(caches, EmptyCache)
             /\ last' = [NoCall EXCEPT !.w = v, !.call = Call("Rolling", NoArg)]
    /\ steps' = steps + 1
    /\ UNCHANGED <<execs, firstRet, seriesVars, rollVars, heapVars>>

ViewKey(view, agg) ==
    <<view.RollingSeries.window, view.RollingSeries.minPeriods, agg>>

ViewCount(key) == IF key \in DOMAIN execs THEN execs[key] ELSE 0

\* Max() or Min() of the view v
ViewCall(v, agg) ==
    /\ steps < MaxViewCalls
    /\ v \in Views
    /\ LET view   == wrappers[v]
           call   == Call(agg, NoArg)
           newRef == Len(caches) + 1
           r      == cacheOrExecute(caches[view.c], CacheKey(call),
                                    ViewClosure(view, agg, newRef))
           stored == [caches EXCEPT ![view.c] = r.c]
       IN  /\ caches' = IF r.executed THEN Append(stored, EmptyCache) ELSE stored
           /\ last' = [w |-> v, call |-> call, key |-> CacheKey(call),
                       ret |-> r.ret, err |-> r.err, executed |-> r.executed]
           /\ execs' = IF r.executed
                       THEN CacheSet(execs, ViewKey(view, agg),
                                     ViewCount(ViewKey(view, agg)) + 1)
                       ELSE execs
    /\ steps' = steps + 1
    /\ UNCHANGED <<wrappers, firstRet, seriesVars, rollVars, heapVars>>

ViewMax == \E v \in Views : ViewCall(v, "Max")
ViewMin == \E v \in Views : ViewCall(v, "Min")

NextViews == RollingCall \/ ViewMax \/ ViewMin

SpecViews == InitViews /\ [][NextViews]_vars

\* C26: a rolling aggregate of a cache-wrapped series is computed at most once
\* for each window, minPeriods and aggregate, whether the calls are made on
\* one view or on separate views cs.Rolling(w, m) with equal w and m.
C26_OncePerWindowAndAggregate ==
    \A key \in DOMAIN execs : execs[key] <= 1

(***************************************************************************)
(* SpecAlias: the slices a cache wrapper hands out.  A slice is a          *)
(* reference to a backing array of heap; the Cache stores the reference    *)
(* the closure returned, and a hit returns that reference.  The caller may *)
(* write into any slice it was handed.  firstRet keeps the values each     *)
(* call computed first.                                                    *)
(***************************************************************************)
AliasCalls ==
    {Call("Float", NoArg), Call("Int", NoArg), Call("IsNaN", NoArg)}
    \cup {Call("Order", r) : r \in {0, 1}}

\* Float(), Int(), IsNaN() or Order(r) of the wrapper: on a miss the closure
\* makes a new slice, which is stored and returned; on a hit the stored slice
\* is returned
SliceCall(call) ==
    /\ steps < MaxSteps
    /\ LET cs     == wrappers[Orig]
           f      == Closure(cs.Series, call, 0)
           newRef == Len(heap) + 1
           r      == cacheOrExecute(caches[cs.c], CacheKey(call),
                                    [ret |-> IF f.err = Nil THEN newRef ELSE 0,
                                     err |-> f.err])
       IN  /\ caches' = [caches EXCEPT ![cs.c] = r.c]
           /\ heap' = IF r.executed /\ f.err = Nil
                      THEN Append(heap, [kind |-> call.op, vals |-> f.ret])
                      ELSE heap
           /\ last' = [w |-> Orig, call |-> call, key |-> CacheKey(call),
                       ret |-> r.ret, err |-> r.err, executed |-> r.executed]
           /\ execs' = IF r.executed
                       THEN CacheSet(execs, <<Orig, call>>, Count(Orig, call) + 1)
                       ELSE execs
           /\ firstRet' = IF <<Orig, call>> \in DOMAIN firstRet \/ f.err # Nil
                          THEN firstRet
                          ELSE CacheSet(firstRet, <<Orig, call>>, f.ret)
    /\ steps' = steps + 1
    /\ UNCHANGED <<wrappers, seriesVars, rollVars, hsrc, hder, hop>>

CallFloat == SliceCall(Call("Float", NoArg))
CallInt   == SliceCall(Call("Int", NoArg))
CallIsNaN == SliceCall(Call("IsNaN", NoArg))
CallOrder == \E r \in {0, 1} : SliceCall(Call("Order", r))

\* the value the caller writes at position i of a slice it holds
Written(slice, i) ==
    CASE slice.kind = "Float" -> F(9 * One)
      [] slice.kind = "IsNaN" -> ~slice.vals[i]
      [] OTHER -> 9

\* the caller assigns to an element of a slice it was handed
CallerWrite ==
    /\ steps < MaxSteps
    /\ \E ref \in DOMAIN heap : \E i \in DOMAIN heap[ref].vals :
         heap' = [heap EXCEPT ![ref].vals[i] = Written(heap[ref], i)]
    /\ last' = [NoCall EXCEPT !.w = "caller"]
    /\ steps' = steps + 1
    /\ UNCHANGED <<wrappers, caches, execs, firstRet, seriesVars, rollVars,
                   hsrc, hder, hop>>

NextAlias == CallFloat \/ CallInt \/ CallIsNaN \/ CallOrder \/ CallerWrite

SpecAlias == InitCache /\ [][NextAlias]_vars

\* C27: whatever the caller did to the slices it was handed before, a call of
\* Float(), Int(), IsNaN() or Order(r) on the wrapper returns the values the
\* operation computed first.
C27_ResultsIsolated ==
    (last.w = Orig /\ last.err = Nil)
        => heap[last.ret].vals = firstRet[<<Orig, last.call>>]

(***************************************************************************)
(* SpecOperation: Operation(operate, seriess...) on up to MaxSeriess       *)
(* series.  operate is one of two functions of the position and the        *)
(* elements handed to it: "Index" returns the position, "Sum" the sum of   *)
(* the elements as a float64.                                              *)
(***************************************************************************)
MaxSeriess == 3   \* series given to one call of Operation

\* the two length checks of Operation: its error, or Nil
OperationError(seriess) ==
    IF Len(seriess) = 0 THEN "seriess num must > 0"
    ELSE IF \E i \in 2..Len(seriess) :
                /\ SeriesLen(seriess[1]) # SeriesLen(seriess[i])
                /\ SeriesLen(seriess[i]) # 1
         THEN "seriess length must be 1 or same"
    ELSE Nil

\* maxLen: the greatest length among the series
OperationMaxLen(seriess) ==
    CHOOSE m \in {SeriesLen(seriess[j]) : j \in 1..Len(seriess)} :
        \A j \in 1..Len(seriess) : SeriesLen(seriess[j]) <= m

\* the position Operation reads of a series for the result's position i
OperationRead(s, i) == IF SeriesLen(s) = 1 THEN 0 ELSE i

\* Elem(i) past the end of a series: an index out of range
OperationPanics(seriess) ==
    /\ OperationError(seriess) = Nil
    /\ \E i \in 0..(OperationMaxLen(seriess) - 1) : \E j \in 1..Len(seriess) :
          OperationRead(seriess[j], i) >= SeriesLen(seriess[j])

\* operateParam for position i: one element of each series, with its type
OperateParam(seriess, i) ==
    [j \in 1..Len(seriess) |->
        [t |-> seriess[j].t,
         x |-> seriess[j].elements.e[OperationRead(seriess[j], i) + 1]]]

RECURSIVE OperateSumFrom(_, _)
OperateSumFrom(eles, j) ==
    IF j > Len(eles) THEN F(0)
    ELSE LET a == ElemFloat(eles[j].t, eles[j].x)
             b == OperateSumFrom(eles, j + 1)
         IN  IF a.nan \/ b.nan THEN NaNF ELSE F(a.v + b.v)

\* the value operate returns: an int or a float64
Operate(operate, i, eles) ==
    IF operate = "Index" THEN [kind |-> "int", v |-> i]
    ELSE [kind |-> "float", f |-> OperateSumFrom(eles, 1)]

\* Element.Set(res) on an element of type t
OperationSet(t, res) ==
    IF res.kind = "int" THEN ElemSetInt(t, res.v) ELSE ElemSetFloat(t, res.f)

\* Operation: the result series, the error, and the calls of operate made
Operation(operate, seriess) ==
    IF OperationError(seriess) # Nil
    THEN [series |-> Err(Nil), err |-> OperationError(seriess), calls |-> <<>>]
    ELSE LET maxLen == OperationMaxLen(seriess)
             t      == seriess[1].t
         IN  [series |->
                 MkSeries(<<>>, t,
                          [i \in 1..maxLen |->
                              OperationSet(t, Operate(operate, i - 1,
                                                      OperateParam(seriess, i - 1)))],
                          Nil),
              err |-> Nil,
              calls |-> [i \in 1..maxLen |->
                            [index |-> i - 1, eles |-> OperateParam(seriess, i - 1)]]]

OperationOperands ==
    { Ints(<<>>), Ints(<<5>>), Ints(<<1, 2>>), Ints(<<3, 4>>),
      MkSeries(<<>>, IntType, <<NaE, E(7)>>, Nil),
      New(<<E(One)>>, FloatType, <<"x">>),
      New(<<E(One), E(2 * One)>>, FloatType, <<"x">>) }

InitOperation ==
    /\ recv = Err(Nil) /\ ret = 0 /\ op = NoOp /\ panicked = FALSE
    /\ IdleCache /\ IdleRolling /\ IdleStorage

OperationIndex ==
    \E seriess \in SeqsUpTo(OperationOperands, MaxSeriess) :
        Applied([name |-> "Operation", operate |-> "Index", seriess |-> seriess],
                OperationPanics(seriess), recv, Operation("Index", seriess))

OperationSum ==
    \E seriess \in SeqsUpTo(OperationOperands, MaxSeriess) :
        Applied([name |-> "Operation", operate |-> "Sum", seriess |-> seriess],
                OperationPanics(seriess), recv, Operation("Sum", seriess))

NextOperation == OperationIndex \/ OperationSum

SpecOperation == InitOperation /\ [][NextOperation]_vars

\* the lengths Operation accepts: some series, each of length 1 or of the
\* length of the first
LengthsAccepted(seriess) ==
    /\ Len(seriess) > 0
    /\ \A j \in 1..Len(seriess) :
          SeriesLen(seriess[j]) \in {1, SeriesLen(seriess[1])}

\* C28: Operation never reads past the end of a series; it returns an error
\* when no series is given or a length is neither 1 nor that of the first
\* series, and otherwise a series of the first series' type and of the greatest
\* input length, made by one call of operate per position in which a series of
\* length 1 gives its only element.
C28_OperationInBounds ==
    op.name = "Operation" =>
        /\ ~panicked
        /\ IF LengthsAccepted(op.seriess)
           THEN /\ ret.err = Nil
                /\ ret.series.t = op.seriess[1].t
                /\ SeriesLen(ret.series) = OperationMaxLen(op.seriess)
                /\ Len(ret.calls) = SeriesLen(ret.series)
                /\ \A i \in 1..Len(ret.calls) :
                      /\ ret.calls[i].index = i - 1
                      /\ \A j \in 1..Len(op.seriess) :
                            ret.calls[i].eles[j].x =
                                op.seriess[j].elements.e[
                                    IF SeriesLen(op.seriess[j]) = 1 THEN 1 ELSE i]
           ELSE ret.err # Nil

====
